---- MODULE Spec2Model ----
(***************************************************************************)
(* Layered scaffold selection of cip_protocol (scaffold/matcher.py and     *)
(* scaffold/registry.py): the process-wide matcher cache with its inverted *)
(* token index, candidate pruning, the four layer scorers, ranking and     *)
(* gating, and the match_scaffold priority cascade.                        *)
(*                                                                         *)
(* Text is a sequence of one-character strings.  Scores are fixed point:   *)
(* a layer value v in [0,1] is the integer v * LayerOne, a weight and the  *)
(* reinforcement multiplier are hundredths, a bias multiplier is in halves *)
(* and a total score t is the integer t * ScoreOne.                        *)
(***************************************************************************)
EXTENDS Integers, Sequences, FiniteSets, TLC

VARIABLES
    registry,   \* ScaffoldRegistry._scaffolds: templates in registration order
    by_tool,    \* ScaffoldRegistry._by_tool: tool name -> ids in registration order
    _cache,     \* matcher._cache: scaffold id -> _ScaffoldCache
    _token_to_scaffold_ids,  \* matcher._token_to_scaffold_ids: token -> set of ids
    call,       \* the operation that ran last, with its arguments
    ret,        \* what that operation returned
    obs,        \* what that operation did on the way (candidates, second pass, ...)
    self,       \* the attributes of the object whose methods are called
    frames      \* the frames of the calls in progress: position and locals

vars == <<registry, by_tool, _cache, _token_to_scaffold_ids, call, ret, obs, self, frames>>

\* Python's None, and a present value: an optional is a sequence of length <= 1.
None == <<>>
Some(v) == <<v>>

\* "name = value" followed by the code that uses the name: Bind(value, LAMBDA
\* name : ...) computes the value once
Bind(value, Use(_)) == Use(value)

\* The largest number of templates a registry holds.
MaxScaffolds == 2

(***************************************************************************)
(* Fixed-point scales.                                                     *)
(***************************************************************************)
LayerOne == 100 * 100                    \* a layer value of 1.0
Hundred == 10 * 10                       \* a weight or multiplier of 1.0
BiasOne == 1 + 1                         \* a bias multiplier of 1.0
ScoreOne == Hundred * LayerOne * Hundred * BiasOne   \* a total_score of 1.0

(***************************************************************************)
(* Characters and text.                                                    *)
(***************************************************************************)
\* str.lower() on one character
LowerChar(c) == IF c = "A" THEN "a" ELSE IF c = "B" THEN "b" ELSE c

\* str.lower()
Lower(s) == [i \in 1..Len(s) |-> LowerChar(s[i])]

\* the character class [a-z0-9'] of _tokenize
IsTokenChar(c) == c \in {"a", "b", "c", "d", "e", "'"}

\* the regex class \w that \b is defined by
IsWordChar(c) == c \in {"a", "b", "c", "d", "e", "A", "B", "_"}

\* str.isspace() on one character
IsSpace(c) == c = " "

\* _tokenize: the maximal runs of [a-z0-9'] of the lowered text, as a set
_tokenize(text) ==
    LET l == Lower(text)
        n == Len(l)
        IsRun(i, j) == /\ \A k \in i..j : IsTokenChar(l[k])
                       /\ (i = 1 \/ ~IsTokenChar(l[i - 1]))
                       /\ (j = n \/ ~IsTokenChar(l[j + 1]))
    IN  {SubSeq(l, i, j) : <<i, j>> \in
            {p \in (1..n) \X (1..n) : p[1] <= p[2] /\ IsRun(p[1], p[2])}}

\* _normalize_phrase: " ".join(phrase.lower().split())
_normalize_phrase(phrase) ==
    LET l == Lower(phrase)
        n == Len(l)
        \* a character survives if it is no blank, or if it is the first blank
        \* after a word and another word follows
        Keep == {i \in 1..n :
                    \/ ~IsSpace(l[i])
                    \/ /\ i > 1
                       /\ ~IsSpace(l[i - 1])
                       /\ \E j \in (i + 1)..n : ~IsSpace(l[j])}
        Nth(k) == CHOOSE i \in Keep : Cardinality({j \in Keep : j < i}) = k - 1
    IN  [k \in 1..Cardinality(Keep) |-> l[Nth(k)]]

\* _compile_phrase_pattern: the pattern \b<escaped lowered phrase>\b is kept
\* as the lowered phrase it matches literally
_compile_phrase_pattern(phrase) == Lower(phrase)

\* \b between text[k] and text[k+1] (k = 0 and k = Len(text) are the ends)
WordBoundary(text, k) ==
    LET left == k >= 1 /\ IsWordChar(text[k])
        right == k < Len(text) /\ IsWordChar(text[k + 1])
    IN  left # right

\* pattern.search(text) for a pattern of _compile_phrase_pattern
PatternSearch(pat, text) ==
    \E i \in 1..(Len(text) - Len(pat) + 1) :
        /\ SubSeq(text, i, i + Len(pat) - 1) = pat
        /\ WordBoundary(text, i - 1)
        /\ WordBoundary(text, i + Len(pat) - 1)

\* the number of times x occurs in the list s
CountIn(s, x) == Cardinality({i \in 1..Len(s) : s[i] = x})

\* tuple(sorted(...)) of a list of phrases keeps each phrase with its
\* multiplicity; two sorted tuples are equal iff these functions are equal
SortedTuple(s) ==
    [x \in {s[i] : i \in 1..Len(s)} |-> CountIn(s, x)]

\* the list s without its empty strings (the "if normalized" filter)
NonEmpty(s) == SelectSeq(s, LAMBDA x : x # <<>>)

\* _scaffold_signature
_scaffold_signature(scaffold) ==
    LET norm(s) == [i \in 1..Len(s) |-> _normalize_phrase(s[i])]
    IN  <<SortedTuple(NonEmpty(norm(scaffold.intent_signals))),
          SortedTuple(NonEmpty(norm(scaffold.keywords)))>>

(***************************************************************************)
(* Templates (scaffold/models.py).  Only the fields the matcher reads.      *)
(***************************************************************************)
Scaffold(id, domain, description, tools, keywords, intent_signals) ==
    [id |-> id, domain |-> domain, description |-> description,
     tools |-> tools, keywords |-> keywords, intent_signals |-> intent_signals]

\* the elements of a list, as a set
Range(s) == {s[i] : i \in 1..Len(s)}

(***************************************************************************)
(* The matcher cache and the inverted index.                               *)
(***************************************************************************)
\* dict.get(key, default) on a dict kept as a function
Get(dict, key, default) == IF key \in DOMAIN dict THEN dict[key] ELSE default

\* an empty dict
EmptyDict == [k \in {} |-> {}]

\* an eviction that leaves the old memberships in place
EvictNothing(index, scaffold_id, tokens) == index

\* _evict_scaffold_tokens: the index after the loop over tokens
_evict_scaffold_tokens(index, scaffold_id, tokens) ==
    LET Touched(t) == t \in tokens /\ index[t] # {}
        Popped(t) == Touched(t) /\ index[t] \ {scaffold_id} = {}
    IN  [t \in {u \in DOMAIN index : ~Popped(u)} |->
            IF Touched(t) THEN index[t] \ {scaffold_id} ELSE index[t]]

\* the entry _ensure_cached builds for a template (its lines 197-214)
BuildEntry(scaffold) ==
    LET signals == Range(scaffold.intent_signals)
        kws == Range(scaffold.keywords)
    IN  [signal_tokens |-> [s \in signals |-> _tokenize(s)],
         signal_patterns |-> [s \in {x \in signals : Lower(x) # <<>>} |->
                                 _compile_phrase_pattern(s)],
         keyword_patterns |-> [k \in {x \in kws : Lower(x) # <<>>} |->
                                 _compile_phrase_pattern(k)],
         match_tokens |-> UNION {_tokenize(s) : s \in signals \cup kws},
         has_tokenless_keyword |->
            \E k \in kws : /\ _tokenize(k) = {}
                           /\ \E i \in 1..Len(k) : ~IsSpace(k[i]),
         signature |-> _scaffold_signature(scaffold)]

\* an insertion that lists the id under no token
IndexInsertNothing(index, scaffold_id, tokens) == index

\* the index after lines 218-219: every token of the entry lists the id
IndexInsert(index, scaffold_id, tokens) ==
    [t \in DOMAIN index \cup tokens |->
        IF t \in tokens THEN Get(index, t, {}) \cup {scaffold_id} ELSE index[t]]

\* whether _ensure_cached returns the entry it finds (line 192)
CacheHit(cache, scaffold) ==
    /\ scaffold.id \in DOMAIN cache
    /\ cache[scaffold.id].signature = _scaffold_signature(scaffold)

\* _ensure_cached: the two structures afterwards and the entry returned
_ensure_cached(cache, index, scaffold) ==
    IF CacheHit(cache, scaffold)
    THEN [cache |-> cache, index |-> index, entry |-> cache[scaffold.id]]
    ELSE LET evicted == IF scaffold.id \in DOMAIN cache
                        THEN _evict_scaffold_tokens(index, scaffold.id,
                                                    cache[scaffold.id].match_tokens)
                        ELSE index
             entry == BuildEntry(scaffold)
         IN  [cache |-> [i \in DOMAIN cache \cup {scaffold.id} |->
                            IF i = scaffold.id THEN entry ELSE cache[i]],
              index |-> IndexInsert(evicted, scaffold.id, entry.match_tokens),
              entry |-> entry]

\* the ids whose entry _ensure_cached replaces: cached under another signature
Rebuilt(cache, scaffolds) ==
    {scaffolds[i].id : i \in {j \in 1..Len(scaffolds) :
        /\ scaffolds[j].id \in DOMAIN cache
        /\ ~CacheHit(cache, scaffolds[j])}}

\* "for scaffold in scaffolds: _ensure_cached(scaffold)"
RECURSIVE EnsureAll(_, _, _)
EnsureAll(cache, index, scaffolds) ==
    IF scaffolds = <<>>
    THEN [cache |-> cache, index |-> index]
    ELSE LET r == _ensure_cached(cache, index, Head(scaffolds))
         IN  EnsureAll(r.cache, r.index, Tail(scaffolds))

\* _candidate_scaffolds: the candidate list and the two structures afterwards
_candidate_scaffolds(cache, index, scaffolds, user_tokens) ==
    IF scaffolds = <<>> \/ user_tokens = {}
    THEN [candidates |-> scaffolds, cache |-> cache, index |-> index]
    ELSE
    Bind(EnsureAll(cache, index, scaffolds), LAMBDA w :
    Bind(UNION {Get(w.index, t, {}) : t \in user_tokens}, LAMBDA candidate_ids :
        [candidates |->
            IF candidate_ids = {}
            THEN <<>>
            ELSE SelectSeq(scaffolds, LAMBDA s :
                    \/ s.id \in candidate_ids
                    \/ w.cache[s.id].has_tokenless_keyword),
         cache |-> w.cache, index |-> w.index]))

(***************************************************************************)
(* SelectionParams and its defaults.                                       *)
(***************************************************************************)
\* layer weights with those of the keyword and the intent layers exchanged
_DEFAULT_WEIGHTS_SWAPPED == [micro |-> 40, meso |-> 20, macro |-> 30, meta |-> 10]

_DEFAULT_WEIGHTS == [micro |-> 20, meso |-> 40, macro |-> 30, meta |-> 10]
_DEFAULT_SATURATION == [micro |-> 7, meso |-> 10]        \* tenths
_DEFAULT_MIN_SIGNAL_COVERAGE == 5                        \* tenths
_DEFAULT_EXACT_SIGNAL_BONUS == 3                         \* tenths
_DEFAULT_REINFORCEMENT == 15                             \* hundredths
_DEFAULT_LAYER_ACTIVATION == 500                         \* 0.05 of LayerOne
_DEFAULT_MACRO_MIN_OVERLAP == 2
_DEFAULT_MIN_CONFIDENCE == 0
_DEFAULT_AMBIGUITY_MARGIN == 0

\* SelectionParams(...): every field is None unless given
SelectionParams(min_confidence, ambiguity_margin, context, selection_bias) ==
    [layer_weights |-> None, saturation |-> None,
     min_signal_coverage |-> None, exact_signal_bonus |-> None,
     reinforcement |-> None, layer_activation |-> None,
     macro_min_overlap |-> None,
     min_confidence |-> min_confidence, ambiguity_margin |-> ambiguity_margin,
     context |-> context, selection_bias |-> selection_bias]

\* "x if x is not None else d"
OrDefault(opt, d) == IF opt # None THEN opt[1] ELSE d

\* "x or d" for a dict: None and the empty dict both give d
DictOrDefault(opt, d) == IF opt # None /\ DOMAIN opt[1] # {} THEN opt[1] ELSE d

weights(params) == DictOrDefault(params.layer_weights, _DEFAULT_WEIGHTS)
sat(params, layer) ==
    Get(DictOrDefault(params.saturation, _DEFAULT_SATURATION), layer, 10)
signal_coverage(params) ==
    OrDefault(params.min_signal_coverage, _DEFAULT_MIN_SIGNAL_COVERAGE)
signal_bonus(params) ==
    OrDefault(params.exact_signal_bonus, _DEFAULT_EXACT_SIGNAL_BONUS)
reinforce(params) == OrDefault(params.reinforcement, _DEFAULT_REINFORCEMENT)
activation(params) == OrDefault(params.layer_activation, _DEFAULT_LAYER_ACTIVATION)
macro_overlap(params) ==
    OrDefault(params.macro_min_overlap, _DEFAULT_MACRO_MIN_OVERLAP)
confidence(params) == OrDefault(params.min_confidence, _DEFAULT_MIN_CONFIDENCE)
ambiguity(params) == OrDefault(params.ambiguity_margin, _DEFAULT_AMBIGUITY_MARGIN)

(***************************************************************************)
(* Layer scorers.                                                          *)
(***************************************************************************)
\* LayerOne * e^(-n/10), rounded, for n = 0..60
ExpNegTable ==
    <<10000, 9048, 8187, 7408, 6703, 6065, 5488, 4966, 4493, 4066,
      3679, 3329, 3012, 2725, 2466, 2231, 2019, 1827, 1653, 1496,
      1353, 1225, 1108, 1003, 907, 821, 743, 672, 608, 550,
      498, 450, 408, 369, 334, 302, 273, 247, 224, 202,
      183, 166, 150, 136, 123, 111, 101, 91, 82, 74,
      67, 61, 55, 50, 45, 41, 37, 33, 30, 27, 25>>

\* math.exp(-x) for x = n tenths
ExpNeg(n) == IF n + 1 <= Len(ExpNegTable) THEN ExpNegTable[n + 1] ELSE 0

\* a saturation that grows by equal steps up to its ceiling
_saturate_linear(raw, k) ==
    IF raw <= 0 THEN 0
    ELSE IF k * raw >= LayerOne THEN LayerOne - 1 ELSE k * raw

\* _saturate(raw, k), raw and k in tenths: 1 - e^(-k * raw)
_saturate(raw, k) ==
    IF raw <= 0 THEN 0 ELSE LayerOne - ExpNeg((k * raw) \div 10)

RECURSIVE SumSeq(_)
SumSeq(s) == IF s = <<>> THEN 0 ELSE Head(s) + SumSeq(Tail(s))

\* _score_micro: the saturated number of keywords whose pattern is found
_score_micro(scaffold, user_lower, cache, params) ==
    LET kws == scaffold.keywords
        hit(kw) == /\ kw \in DOMAIN cache.keyword_patterns
                   /\ PatternSearch(cache.keyword_patterns[kw], user_lower)
        hits == Cardinality({i \in 1..Len(kws) : hit(kws[i])})
    IN  _saturate(hits * 10, sat(params, "micro"))

\* _score_meso: the saturated sum of the signals' contributions (tenths)
_score_meso(scaffold, user_tokens, user_lower, cache, params) ==
    LET sigs == scaffold.intent_signals
        contribution(signal) ==
            LET signal_tokens == Get(cache.signal_tokens, signal, {})
                covered == Cardinality(signal_tokens \cap user_tokens)
                n == Cardinality(signal_tokens)
            IN  IF signal_tokens = {} THEN 0
                \* coverage < min_cov, with coverage = covered / n
                ELSE IF covered * 10 < signal_coverage(params) * n THEN 0
                ELSE (covered * 10) \div n
                     + (IF /\ signal \in DOMAIN cache.signal_patterns
                           /\ PatternSearch(cache.signal_patterns[signal], user_lower)
                        THEN signal_bonus(params) ELSE 0)
        raw_sum == SumSeq([i \in 1..Len(sigs) |-> contribution(sigs[i])])
    IN  _saturate(raw_sum, sat(params, "meso"))

\* min of two numbers
Min(a, b) == IF a <= b THEN a ELSE b
Max(a, b) == IF a >= b THEN a ELSE b

\* _score_macro: the share of the description's tokens found in the input
_score_macro(scaffold, user_tokens, params) ==
    LET desc_tokens == _tokenize(scaffold.description)
        overlap == Cardinality(user_tokens \cap desc_tokens)
    IN  IF desc_tokens = {} THEN 0
        ELSE IF overlap < macro_overlap(params) THEN 0
        ELSE Min((overlap * LayerOne) \div Cardinality(desc_tokens), LayerOne)

\* _score_meta: 0.5 for a matching domain hint, 0.3 for the prior scaffold
_score_meta(scaffold, params) ==
    IF params.context = None \/ DOMAIN params.context[1] = {} THEN 0
    ELSE LET context == params.context[1]
             domain_score ==
                IF /\ "domain" \in DOMAIN context
                   /\ context["domain"] # ""
                   /\ scaffold.domain = context["domain"]
                THEN LayerOne \div 2 ELSE 0
             score ==
                IF /\ "prior_scaffold_id" \in DOMAIN context
                   /\ context["prior_scaffold_id"] = scaffold.id
                THEN Max(domain_score, (3 * LayerOne) \div 10) ELSE domain_score
         IN  Min(score, LayerOne)

\* a count of the active layers that leaves the meta layer out
active_count_no_meta(layers, threshold) ==
    Cardinality({l \in {"micro", "meso", "macro"} : layers[l] > threshold})

\* LayerBreakdown.active_count
active_count(layers, threshold) ==
    Cardinality({l \in {"micro", "meso", "macro", "meta"} : layers[l] > threshold})

\* ScaffoldScore(scaffold_id=..., total_score=0.0): everything else defaulted
ZeroScore(scaffold_id) ==
    [scaffold_id |-> scaffold_id, total_score |-> 0,
     layers |-> [micro |-> 0, meso |-> 0, macro |-> 0, meta |-> 0],
     interaction_multiplier |-> Hundred, bias_multiplier |-> BiasOne,
     pre_bias_score |-> 0]

\* a scoring of one template in which the bias is applied before the
\* reinforcement is recorded
_score_one_bias_first(scaffold, user_tokens, user_lower, cache, params) ==
    LET layers == [micro |-> _score_micro(scaffold, user_lower, cache, params),
                   meso |-> _score_meso(scaffold, user_tokens, user_lower, cache, params),
                   macro |-> _score_macro(scaffold, user_tokens, params),
                   meta |-> _score_meta(scaffold, params)]
        w == weights(params)
        weighted == Get(w, "micro", 0) * layers.micro + Get(w, "meso", 0) * layers.meso
                    + Get(w, "macro", 0) * layers.macro + Get(w, "meta", 0) * layers.meta
        active == active_count(layers, activation(params))
        interaction == Hundred + reinforce(params) * Max(0, active - 1)
        pre_bias == weighted * interaction * Get(OrDefault(params.selection_bias, EmptyDict), scaffold.id, 1)
        multiplier ==
            IF params.selection_bias # None /\ DOMAIN params.selection_bias[1] # {}
            THEN Get(params.selection_bias[1], scaffold.id, BiasOne)
            ELSE BiasOne
    IN  [scaffold_id |-> scaffold.id, total_score |-> pre_bias * multiplier,
         layers |-> layers, interaction_multiplier |-> interaction,
         bias_multiplier |-> multiplier, pre_bias_score |-> pre_bias]

\* _score_one
_score_one(scaffold, user_tokens, user_lower, cache, params) ==
    LET layers == [micro |-> _score_micro(scaffold, user_lower, cache, params),
                   meso |-> _score_meso(scaffold, user_tokens, user_lower, cache, params),
                   macro |-> _score_macro(scaffold, user_tokens, params),
                   meta |-> _score_meta(scaffold, params)]
        w == weights(params)
        weighted == Get(w, "micro", 0) * layers.micro + Get(w, "meso", 0) * layers.meso
                    + Get(w, "macro", 0) * layers.macro + Get(w, "meta", 0) * layers.meta
        active == active_count(layers, activation(params))
        interaction == Hundred + reinforce(params) * Max(0, active - 1)
        pre_bias == weighted * interaction
        multiplier ==
            IF params.selection_bias # None /\ DOMAIN params.selection_bias[1] # {}
            THEN Get(params.selection_bias[1], scaffold.id, BiasOne)
            ELSE BiasOne
    IN  [scaffold_id |-> scaffold.id, total_score |-> pre_bias * multiplier,
         layers |-> layers, interaction_multiplier |-> interaction,
         bias_multiplier |-> multiplier, pre_bias_score |-> pre_bias]

(***************************************************************************)
(* Orchestration: _score_scaffolds_layered.                                *)
(***************************************************************************)
\* a descending sort that puts the later of two equal totals first
SortByTotalDescUnstable(scores) ==
    LET n == Len(scores)
        Rank(i) == 1 + Cardinality({j \in 1..n :
                        \/ scores[j].total_score > scores[i].total_score
                        \/ /\ scores[j].total_score = scores[i].total_score
                           /\ j > i})
    IN  [k \in 1..n |-> scores[CHOOSE i \in 1..n : Rank(i) = k]]

\* scores.sort(key=lambda s: s.total_score, reverse=True): list.sort is
\* stable, also with reverse=True, so equal totals keep their order
SortByTotalDesc(scores) ==
    LET n == Len(scores)
        Rank(i) == 1 + Cardinality({j \in 1..n :
                        \/ scores[j].total_score > scores[i].total_score
                        \/ /\ scores[j].total_score = scores[i].total_score
                           /\ j < i})
    IN  [k \in 1..n |-> scores[CHOOSE i \in 1..n : Rank(i) = k]]

\* max((s.total_score for s in scores), default=0.0)
BestSoFar(scores) ==
    IF scores = <<>> THEN 0
    ELSE CHOOSE m \in {scores[i].total_score : i \in 1..Len(scores)} :
            \A i \in 1..Len(scores) : scores[i].total_score <= m

\* a second pass that runs whenever templates were pruned
SecondPassAlways(conf_threshold, best_so_far, non_candidate_scaffolds) ==
    non_candidate_scaffolds # <<>>

\* the condition of the second pass (line 490)
SecondPassRuns(conf_threshold, best_so_far, non_candidate_scaffolds) ==
    /\ conf_threshold > 0
    /\ best_so_far < conf_threshold
    /\ non_candidate_scaffolds # <<>>

\* a gate that forgets the confidence floor
SelectsAnyPositive(scores, conf_threshold) ==
    scores # <<>> /\ scores[1].total_score > 0

\* whether the sorted scores carry a selection (lines 504-511)
Selects(scores, conf_threshold) ==
    /\ scores # <<>>
    /\ scores[1].total_score > 0
    /\ ~(conf_threshold > 0 /\ scores[1].total_score < conf_threshold)

\* a flag that does not ask the runner-up to score
IsAmbiguousAnyRunnerUp(scores, amb_margin) ==
    /\ amb_margin > 0
    /\ Len(scores) > 1
    /\ scores[1].total_score - scores[2].total_score < amb_margin

\* the ambiguity flag of a selection (lines 513-518)
IsAmbiguous(scores, amb_margin) ==
    /\ amb_margin > 0
    /\ Len(scores) > 1
    /\ scores[2].total_score > 0
    /\ scores[1].total_score - scores[2].total_score < amb_margin

\* the first template of the list with the id (lines 520-524)
FindById(scaffolds, scaffold_id) ==
    IF \E i \in 1..Len(scaffolds) : scaffolds[i].id = scaffold_id
    THEN Some(scaffolds[CHOOSE i \in 1..Len(scaffolds) :
                /\ scaffolds[i].id = scaffold_id
                /\ \A j \in 1..(i - 1) : scaffolds[j].id # scaffold_id])
    ELSE None

\* the ids of a list of templates
Ids(scaffolds) == {scaffolds[i].id : i \in 1..Len(scaffolds)}

\* pass 1 (lines 473-484): the candidates' scores, the templates left over
\* and the two structures afterwards
FirstPass(cache, index, scaffolds, user_tokens, user_lower, params) ==
    Bind(_candidate_scaffolds(cache, index, scaffolds, user_tokens), LAMBDA c :
    Bind(Ids(c.candidates), LAMBDA candidate_ids :
    Bind(SelectSeq(scaffolds, LAMBDA s : s.id \in candidate_ids), LAMBDA firsts :
    Bind(EnsureAll(c.cache, c.index, firsts), LAMBDA w :
        [candidates |-> c.candidates,
         scores |-> [i \in 1..Len(firsts) |->
                       _score_one(firsts[i], user_tokens, user_lower,
                                  w.cache[firsts[i].id], params)],
         non_candidate_scaffolds |->
            SelectSeq(scaffolds, LAMBDA s : s.id \notin candidate_ids),
         cache |-> w.cache, index |-> w.index]))))

\* a second pass that promotes every template left over
PromotedAll(non_candidate_scaffolds, user_tokens, params) ==
    non_candidate_scaffolds

\* the templates left over whose description alone activates (lines 491-493)
Promoted(non_candidate_scaffolds, user_tokens, params) ==
    SelectSeq(non_candidate_scaffolds, LAMBDA s :
        _score_macro(s, user_tokens, params) > activation(params))

\* pass 2 (lines 487-500): a score for every template left over, fully
\* scored when the pass runs and the description alone activates
SecondPass(first, user_tokens, user_lower, params) ==
    Bind(SecondPassRuns(confidence(params), BestSoFar(first.scores),
                        first.non_candidate_scaffolds), LAMBDA second :
    Bind(IF second
         THEN Promoted(first.non_candidate_scaffolds, user_tokens, params)
         ELSE <<>>, LAMBDA promoted :
    Bind(EnsureAll(first.cache, first.index, promoted), LAMBDA w :
        [second_pass |-> second,
         promoted |-> Ids(promoted),
         scores |-> [i \in 1..Len(first.non_candidate_scaffolds) |->
                       IF first.non_candidate_scaffolds[i].id \in Ids(promoted)
                       THEN _score_one(first.non_candidate_scaffolds[i], user_tokens,
                                       user_lower,
                                       w.cache[first.non_candidate_scaffolds[i].id],
                                       params)
                       ELSE ZeroScore(first.non_candidate_scaffolds[i].id)],
         cache |-> w.cache, index |-> w.index])))

\* lines 502-526: sort, gate, flag and look the winner up
Rank(scaffolds, all_scores, params) ==
    Bind(SortByTotalDesc(all_scores), LAMBDA scores :
    Bind(Selects(scores, confidence(params)), LAMBDA chosen :
        [selected |-> IF chosen THEN FindById(scaffolds, scores[1].scaffold_id)
                      ELSE None,
         scores |-> scores,
         confidence |-> IF scores # <<>> /\ scores[1].total_score > 0
                        THEN scores[1].total_score ELSE 0,
         ambiguous |-> chosen /\ IsAmbiguous(scores, ambiguity(params))]))

\* a scoring that warms the cache before it looks at the input
_score_scaffolds_layered_warm(cache, index, scaffolds, user_input, params) ==
    IF scaffolds = <<>> \/ user_input = <<>>
    THEN [selected |-> None, scores |-> <<>>, confidence |-> 0, ambiguous |-> FALSE,
          cache |-> EnsureAll(cache, index, scaffolds).cache,
          index |-> EnsureAll(cache, index, scaffolds).index,
          candidates |-> <<>>, scored |-> {}, second_pass |-> FALSE, rebuilt |-> {}]
    ELSE
    Bind(Lower(user_input), LAMBDA user_lower :
    Bind(_tokenize(user_input), LAMBDA user_tokens :
    Bind(FirstPass(cache, index, scaffolds, user_tokens, user_lower, params),
         LAMBDA first :
    Bind(SecondPass(first, user_tokens, user_lower, params), LAMBDA second :
    Bind(Rank(scaffolds, first.scores \o second.scores, params), LAMBDA out :
        [selected |-> out.selected, scores |-> out.scores,
         confidence |-> out.confidence, ambiguous |-> out.ambiguous,
         cache |-> second.cache, index |-> second.index,
         candidates |-> first.candidates,
         scored |-> Ids(first.candidates) \cup second.promoted,
         second_pass |-> second.second_pass,
         rebuilt |-> Rebuilt(cache, scaffolds)])))))

\* _score_scaffolds_layered: the tuple returned (selected, scores, confidence,
\* ambiguous), the two structures afterwards, and what was done on the way.
\* The templates of one call have distinct ids (ScaffoldRegistry.register
\* rejects a duplicate), so an entry is not rebuilt between its
\* _ensure_cached and its _score_one.
_score_scaffolds_layered(cache, index, scaffolds, user_input, params) ==
    IF scaffolds = <<>> \/ user_input = <<>>
    THEN [selected |-> None, scores |-> <<>>, confidence |-> 0, ambiguous |-> FALSE,
          cache |-> cache, index |-> index,
          candidates |-> <<>>, scored |-> {}, second_pass |-> FALSE, rebuilt |-> {}]
    ELSE
    Bind(Lower(user_input), LAMBDA user_lower :
    Bind(_tokenize(user_input), LAMBDA user_tokens :
    Bind(FirstPass(cache, index, scaffolds, user_tokens, user_lower, params),
         LAMBDA first :
    Bind(SecondPass(first, user_tokens, user_lower, params), LAMBDA second :
    Bind(Rank(scaffolds, first.scores \o second.scores, params), LAMBDA out :
        [selected |-> out.selected, scores |-> out.scores,
         confidence |-> out.confidence, ambiguous |-> out.ambiguous,
         cache |-> second.cache, index |-> second.index,
         candidates |-> first.candidates,
         scored |-> Ids(first.candidates) \cup second.promoted,
         second_pass |-> second.second_pass,
         rebuilt |-> Rebuilt(cache, scaffolds)])))))

(***************************************************************************)
(* ScaffoldRegistry (scaffold/registry.py).                                *)
(***************************************************************************)
\* ScaffoldRegistry.get
RegistryGet(reg, scaffold_id) == FindById(reg, scaffold_id)

\* the _by_tool index after register(scaffold)
ByToolAfterRegister(idx, scaffold) ==
    LET tools == Range(scaffold.tools)
    IN  [t \in DOMAIN idx \cup tools |->
            IF t \in tools /\ scaffold.id \notin Range(Get(idx, t, <<>>))
            THEN Append(Get(idx, t, <<>>), scaffold.id)
            ELSE idx[t]]

\* ScaffoldRegistry.find_by_tool: [self._scaffolds[sid] for sid in ids]
RegistryFindByTool(reg, idx, tool_name) ==
    LET ids == Get(idx, tool_name, <<>>)
    IN  [k \in 1..Len(ids) |-> FindById(reg, ids[k])[1]]

(***************************************************************************)
(* match_scaffold.                                                         *)
(***************************************************************************)
\* "params or SelectionParams(selection_bias=selection_bias)" followed by
\* "if selection_bias and not p.selection_bias: p.selection_bias = ..."
EffectiveParams(params, selection_bias) ==
    LET p == IF params # None THEN params[1]
             ELSE SelectionParams(None, None, None, selection_bias)
        given == selection_bias # None /\ DOMAIN selection_bias[1] # {}
        unset == p.selection_bias = None \/ DOMAIN p.selection_bias[1] = {}
    IN  IF given /\ unset THEN [p EXCEPT !.selection_bias = selection_bias] ELSE p

\* a cascade that asks the tool index before the caller's id
CascadeStageToolFirst(reg, idx, tool_name, user_input, caller_scaffold_id) ==
    IF RegistryFindByTool(reg, idx, tool_name) # <<>> THEN 2
    ELSE IF /\ caller_scaffold_id # None
            /\ caller_scaffold_id[1] # ""
            /\ RegistryGet(reg, caller_scaffold_id[1]) # None
    THEN 1
    ELSE IF user_input # <<>> THEN 3
    ELSE 4

\* which stage of the cascade answers: 1 caller id, 2 tool, 3 scoring, 4 none
CascadeStage(reg, idx, tool_name, user_input, caller_scaffold_id) ==
    IF /\ caller_scaffold_id # None
       /\ caller_scaffold_id[1] # ""
       /\ RegistryGet(reg, caller_scaffold_id[1]) # None
    THEN 1
    ELSE IF RegistryFindByTool(reg, idx, tool_name) # <<>> THEN 2
    ELSE IF user_input # <<>> THEN 3
    ELSE 4

\* match_scaffold: the template returned, the two structures afterwards, the
\* stage that answered and the params object as the call leaves it
match_scaffold(cache, index, reg, idx, tool_name, user_input, caller_scaffold_id, selection_bias, params) ==
    LET stage == CascadeStage(reg, idx, tool_name, user_input, caller_scaffold_id)
        p == EffectiveParams(params, selection_bias)
        r == _score_scaffolds_layered(cache, index, reg, user_input, p)
    IN  IF stage = 1
        THEN [selected |-> RegistryGet(reg, caller_scaffold_id[1]),
              cache |-> cache, index |-> index, stage |-> 1, params_after |-> params]
        ELSE IF stage = 2
        THEN [selected |-> Some(RegistryFindByTool(reg, idx, tool_name)[1]),
              cache |-> cache, index |-> index, stage |-> 2, params_after |-> params]
        ELSE IF stage = 3
        THEN [selected |-> r.selected,
              cache |-> r.cache, index |-> r.index, stage |-> 3,
              params_after |-> IF params # None THEN Some(p) ELSE None]
        ELSE [selected |-> None,
              cache |-> cache, index |-> index, stage |-> 4, params_after |-> params]

(***************************************************************************)
(* The inputs the operations are run on.                                   *)
(***************************************************************************)
sEmpty == <<>>
sA == <<"a">>
sUpperA == <<"A">>
sE == <<"e">>
sDollar == <<"$">>
sAB == <<"a", " ", "b">>
sAWideB == <<"a", " ", " ", "b">>
sCD == <<"c", " ", "d">>
sACD == <<"a", " ", "c", " ", "d">>
sADollarB == <<"a", "$", "b">>

\* templates: x in two versions that differ in letter case only, y with a
\* keyword that has no token, with a phrase, or with the same phrase and a
\* wider gap, z with a description as its only way to match an input of the
\* pool
ScaffoldPool ==
    {Scaffold("x", "fin", sCD, <<"t">>, <<sA>>, <<>>),
     Scaffold("x", "fin", sCD, <<"t">>, <<sUpperA>>, <<>>),
     Scaffold("y", "hr", sEmpty, <<>>, <<sDollar>>, <<>>),
     Scaffold("y", "hr", sEmpty, <<>>, <<>>, <<sAB>>),
     Scaffold("y", "hr", sEmpty, <<>>, <<>>, <<sAWideB>>),
     Scaffold("z", "fin", sCD, <<"t">>, <<sE>>, <<>>)}

InputPool == {sEmpty, sDollar, sAB, sCD, sACD, sADollarB}

\* a score of n twentieths
Twentieths(n) == (n * ScoreOne) \div 20

ParamsPool ==
    {SelectionParams(None, None, None, None),
     SelectionParams(Some(Twentieths(4)), None, None, None),
     SelectionParams(Some(Twentieths(10)), Some(Twentieths(1)), None, None),
     SelectionParams(None, Some(Twentieths(10)), None, None),
     SelectionParams(None, Some(Twentieths(1)),
                     Some([domain |-> "hr"]), Some([y |-> 2 * BiasOne]))}

ToolPool == {"t", "u"}
CallerIdPool == {None, Some("x"), Some("q")}
MatchInputPool == {sEmpty, sAB, sCD}
MatchParamsPool == {None, Some(SelectionParams(Some(Twentieths(4)), None, None, None))}
MatchBiasPool == {None}

(***************************************************************************)
(* The state machine.                                                      *)
(***************************************************************************)
Nothing == [kind |-> "none"]

Init ==
    /\ registry = <<>>
    /\ by_tool = EmptyDict
    /\ _cache = EmptyDict
    /\ _token_to_scaffold_ids = EmptyDict
    /\ call = [op |-> "init"]
    /\ ret = Nothing
    /\ obs = Nothing
    /\ self = Nothing
    /\ frames = Nothing

\* ScaffoldRegistry(): a fresh registry replaces the current one (a reload);
\* the process-wide matcher cache stays
NewRegistry ==
    /\ registry' = <<>>
    /\ by_tool' = EmptyDict
    /\ call' = [op |-> "ScaffoldRegistry"]
    /\ ret' = Nothing
    /\ obs' = Nothing
    /\ UNCHANGED <<_cache, _token_to_scaffold_ids, self, frames>>

\* ScaffoldRegistry.register
Register(scaffold) ==
    /\ Len(registry) < MaxScaffolds
    /\ call' = [op |-> "register", scaffold |-> scaffold]
    /\ obs' = Nothing
    /\ IF scaffold.id \in Ids(registry)
       THEN /\ ret' = [kind |-> "raise", error |-> "ValueError"]
            /\ UNCHANGED <<registry, by_tool>>
       ELSE /\ ret' = Nothing
            /\ registry' = Append(registry, scaffold)
            /\ by_tool' = ByToolAfterRegister(by_tool, scaffold)
    /\ UNCHANGED <<_cache, _token_to_scaffold_ids, self, frames>>

\* prepare_matcher_cache(registry)
PrepareMatcherCache ==
    \E w \in {EnsureAll(_cache, _token_to_scaffold_ids, registry)} :
        /\ _cache' = w.cache
        /\ _token_to_scaffold_ids' = w.index
        /\ call' = [op |-> "prepare_matcher_cache"]
        /\ ret' = Nothing
        /\ obs' = [kind |-> "prepared",
                   rebuilt |-> Rebuilt(_cache, registry)]
        /\ UNCHANGED <<registry, by_tool, self, frames>>

\* clear_matcher_cache()
ClearMatcherCache ==
    /\ _cache' = EmptyDict
    /\ _token_to_scaffold_ids' = EmptyDict
    /\ call' = [op |-> "clear_matcher_cache"]
    /\ ret' = Nothing
    /\ obs' = Nothing
    /\ UNCHANGED <<registry, by_tool, self, frames>>

\* _score_scaffolds_layered(registry.all(), user_input, params)
ScoreScaffoldsLayered(user_input, params) ==
    \E r \in {_score_scaffolds_layered(_cache, _token_to_scaffold_ids,
                                      registry, user_input, params)} :
        /\ _cache' = r.cache
        /\ _token_to_scaffold_ids' = r.index
        /\ call' = [op |-> "_score_scaffolds_layered", scaffolds |-> registry,
                    user_input |-> user_input, params |-> params]
        /\ ret' = [kind |-> "scored", selected |-> r.selected, scores |-> r.scores,
                   confidence |-> r.confidence, ambiguous |-> r.ambiguous]
        /\ obs' = [kind |-> "scored", candidates |-> r.candidates,
                   scored |-> r.scored, second_pass |-> r.second_pass,
                   rebuilt |-> r.rebuilt]
        /\ UNCHANGED <<registry, by_tool, self, frames>>

\* match_scaffold(registry, tool_name, user_input, caller_scaffold_id,
\*                selection_bias, params)
MatchScaffold(tool_name, user_input, caller_scaffold_id, selection_bias, params) ==
    \E r \in {match_scaffold(_cache, _token_to_scaffold_ids, registry, by_tool,
                            tool_name, user_input, caller_scaffold_id,
                            selection_bias, params)} :
        /\ _cache' = r.cache
        /\ _token_to_scaffold_ids' = r.index
        /\ call' = [op |-> "match_scaffold", scaffolds |-> registry,
                    tool_name |-> tool_name, user_input |-> user_input,
                    caller_scaffold_id |-> caller_scaffold_id,
                    selection_bias |-> selection_bias, params |-> params]
        /\ ret' = [kind |-> "matched", selected |-> r.selected]
        /\ obs' = [kind |-> "matched", stage |-> r.stage,
                   params_after |-> r.params_after]
        /\ UNCHANGED <<registry, by_tool, self, frames>>

Next ==
    \/ NewRegistry
    \/ \E scaffold \in ScaffoldPool : Register(scaffold)
    \/ PrepareMatcherCache
    \/ ClearMatcherCache
    \/ \E user_input \in InputPool, params \in ParamsPool :
            ScoreScaffoldsLayered(user_input, params)

\* the matcher cache under registrations, warm-ups, clears and scoring calls
Spec == Init /\ [][Next]_vars

NextCascade ==
    \/ NewRegistry
    \/ \E scaffold \in ScaffoldPool : Register(scaffold)
    \/ ClearMatcherCache
    \/ \E tool_name \in ToolPool, user_input \in MatchInputPool,
          caller_scaffold_id \in CallerIdPool, selection_bias \in MatchBiasPool,
          params \in MatchParamsPool :
            MatchScaffold(tool_name, user_input, caller_scaffold_id,
                          selection_bias, params)

\* the priority cascade of match_scaffold over registries
SpecCascade == Init /\ [][NextCascade]_vars

(***************************************************************************)
(* Properties.                                                             *)
(***************************************************************************)
Scored == call.op = "_score_scaffolds_layered"

\* the largest total among the scores returned
TopTotal(scores) ==
    CHOOSE m \in {scores[i].total_score : i \in 1..Len(scores)} :
        \A i \in 1..Len(scores) : scores[i].total_score <= m

\* the total the scores returned give the template with the id
TotalOf(scores, scaffold_id) ==
    scores[CHOOSE i \in 1..Len(scores) : scores[i].scaffold_id = scaffold_id].total_score

\* the floor a call was given: 0 when min_confidence is left unset
FloorOf(params) ==
    IF params.min_confidence = None THEN 0 ELSE params.min_confidence[1]

\* C1: _score_scaffolds_layered returns a template iff there are scores, the
\* highest total is strictly positive and the floor is 0/unset or not above
\* that total; otherwise it returns None with ambiguous = False.  A returned
\* template's total is the maximum of the returned totals and is the
\* confidence reported.
C1_SelectionGate ==
    Scored =>
        /\ ret.selected # None <=>
              /\ ret.scores # <<>>
              /\ TopTotal(ret.scores) > 0
              /\ (FloorOf(call.params) = 0
                  \/ TopTotal(ret.scores) >= FloorOf(call.params))
        /\ ret.selected = None => ~ret.ambiguous
        /\ ret.selected # None =>
              /\ TotalOf(ret.scores, ret.selected[1].id) = TopTotal(ret.scores)
              /\ ret.confidence = TopTotal(ret.scores)

\* a positive best score that a configured floor rejects
C1_Witness ==
    /\ Scored
    /\ call.params.min_confidence # None
    /\ ret.scores # <<>>
    /\ TopTotal(ret.scores) > 0
    /\ ret.selected = None

\* the tokens and ids the two structures mention
KnownTokens ==
    DOMAIN _token_to_scaffold_ids
        \cup UNION {_cache[s].match_tokens : s \in DOMAIN _cache}
KnownIds ==
    DOMAIN _cache
        \cup UNION {_token_to_scaffold_ids[t] : t \in DOMAIN _token_to_scaffold_ids}

\* C2: after any serial sequence of warm-ups, clears and scoring calls the
\* inverted index is exact: s is listed under t iff the cache holds an entry
\* for s whose match_tokens contain t; no key maps to an empty set; after
\* clear_matcher_cache both structures are empty.
C2_IndexExact ==
    /\ \A t \in KnownTokens, s \in KnownIds :
          (t \in DOMAIN _token_to_scaffold_ids /\ s \in _token_to_scaffold_ids[t])
              <=> (s \in DOMAIN _cache /\ t \in _cache[s].match_tokens)
    /\ \A t \in DOMAIN _token_to_scaffold_ids : _token_to_scaffold_ids[t] # {}
    /\ call.op = "clear_matcher_cache" =>
          _cache = EmptyDict /\ _token_to_scaffold_ids = EmptyDict

\* an entry was replaced by one with other tokens while another id stays
\* indexed
C2_Witness ==
    /\ obs.kind \in {"scored", "prepared"}
    /\ obs.rebuilt # {}
    /\ \E s \in obs.rebuilt : _cache[s].match_tokens = {}
    /\ DOMAIN _token_to_scaffold_ids # {}

\* some keyword of the template occurs in the input as a phrase
KeywordFound(scaffold, user_input) ==
    \E i \in 1..Len(scaffold.keywords) :
        PatternSearch(Lower(scaffold.keywords[i]), Lower(user_input))

\* nothing of the template occurs in the input: no keyword, no token of an
\* intent phrase, and fewer description tokens than the structural layer needs
MatchesNothingOf(scaffold, user_input) ==
    /\ ~KeywordFound(scaffold, user_input)
    /\ \A i \in 1..Len(scaffold.intent_signals) :
          _tokenize(scaffold.intent_signals[i]) \cap _tokenize(user_input) = {}
    /\ Cardinality(_tokenize(scaffold.description) \cap _tokenize(user_input))
          < _DEFAULT_MACRO_MIN_OVERLAP

\* the keywords and phrases an entry was built from are not the template's
ContentDiffers(entry, scaffold) ==
    \/ DOMAIN entry.keyword_patterns # Range(scaffold.keywords)
    \/ DOMAIN entry.signal_tokens # Range(scaffold.intent_signals)

\* the input matches a keyword or a phrase token the entry was built from
MatchesOld(entry, user_input) ==
    \/ \E k \in DOMAIN entry.keyword_patterns :
          PatternSearch(entry.keyword_patterns[k], Lower(user_input))
    \/ \E g \in DOMAIN entry.signal_tokens :
          entry.signal_tokens[g] \cap _tokenize(user_input) # {}

\* C3: once a template id has been scored and a template with the same id but
\* other keywords or intent phrases is scored (alone, with no floor and no
\* context), the result reflects the new content only: an input that matches
\* the new keywords selects it, an input that matches only the old content
\* selects nothing.
C3_ChangedContentWins ==
    [][(/\ call'.op = "_score_scaffolds_layered"
        /\ Len(call'.scaffolds) = 1
        /\ call'.params.min_confidence = None
        /\ call'.params.context = None
        /\ call'.scaffolds[1].id \in DOMAIN _cache
        /\ ContentDiffers(_cache[call'.scaffolds[1].id], call'.scaffolds[1]))
       => /\ KeywordFound(call'.scaffolds[1], call'.user_input)
                => ret'.selected = Some(call'.scaffolds[1])
          /\ (/\ MatchesOld(_cache[call'.scaffolds[1].id], call'.user_input)
              /\ MatchesNothingOf(call'.scaffolds[1], call'.user_input))
                => ret'.selected = None]_vars

\* the totals of a score list, by template id
TotalsOf(scores) ==
    {<<scores[i].scaffold_id, scores[i].total_score>> : i \in 1..Len(scores)}

\* C4: scoring with a warm cache returns the same template and the same
\* totals per template as scoring the same arguments right after
\* clear_matcher_cache(), whatever was scored or warmed before.
C4_WarmEqualsCold ==
    Scored =>
        Bind(_score_scaffolds_layered(EmptyDict, EmptyDict, call.scaffolds,
                                      call.user_input, call.params),
             LAMBDA cold : /\ ret.selected = cold.selected
                           /\ TotalsOf(ret.scores) = TotalsOf(cold.scores))

\* C5: for a non-empty template list and a non-empty input token set the
\* candidates are exactly the templates indexed under an input token together
\* with every template whose entry has has_tokenless_keyword, also when no
\* input token is in the index.
C5_AlwaysScoreKept ==
    (Scored /\ call.scaffolds # <<>> /\ _tokenize(call.user_input) # {}) =>
        obs.candidates =
            SelectSeq(call.scaffolds, LAMBDA s :
                \/ \E t \in _tokenize(call.user_input) :
                      /\ t \in DOMAIN _token_to_scaffold_ids
                      /\ s.id \in _token_to_scaffold_ids[t]
                \/ _cache[s.id].has_tokenless_keyword)

\* where a template id stands in a list of templates
PositionOf(scaffolds, scaffold_id) ==
    CHOOSE i \in 1..Len(scaffolds) : scaffolds[i].id = scaffold_id

\* C6: ties break by first-registered-wins: no template earlier in the input
\* list than the selected one has a total equal to or greater than the
\* selected template's, in the first pass as in the second.
C6_FirstRegisteredWins ==
    (Scored /\ ret.selected # None) =>
        \A i \in 1..(PositionOf(call.scaffolds, ret.selected[1].id) - 1) :
            TotalOf(ret.scores, call.scaffolds[i].id)
                < TotalOf(ret.scores, ret.selected[1].id)

\* two templates promoted by the second pass tie and the earlier one wins
C6_Witness ==
    /\ Scored
    /\ ret.selected # None
    /\ obs.second_pass
    /\ \E i \in 1..Len(call.scaffolds) :
          /\ i > PositionOf(call.scaffolds, ret.selected[1].id)
          /\ call.scaffolds[i].id \in obs.scored
          /\ TotalOf(ret.scores, call.scaffolds[i].id)
                = TotalOf(ret.scores, ret.selected[1].id)

\* the margin a call was given: 0 when ambiguity_margin is left unset
MarginOf(params) ==
    IF params.ambiguity_margin = None THEN 0 ELSE params.ambiguity_margin[1]

\* C7: ambiguous is True iff a template is selected, the margin is > 0, there
\* are at least two scores, the second-ranked total is > 0 and the gap between
\* the two is strictly under the margin; the top-ranked template is still the
\* one returned; equal positive totals under a positive margin are flagged.
C7_AmbiguityAdvisory ==
    Scored =>
        /\ ret.ambiguous <=>
              /\ ret.selected # None
              /\ MarginOf(call.params) > 0
              /\ Len(ret.scores) >= 2
              /\ ret.scores[2].total_score > 0
              /\ ret.scores[1].total_score - ret.scores[2].total_score
                    < MarginOf(call.params)
        /\ ret.ambiguous => ret.selected[1].id = ret.scores[1].scaffold_id
        /\ (/\ ret.selected # None
            /\ MarginOf(call.params) > 0
            /\ Len(ret.scores) >= 2
            /\ ret.scores[2].total_score = ret.scores[1].total_score)
              => ret.ambiguous

\* two templates with the same positive total are flagged, the first returned
C7_Witness ==
    /\ Scored
    /\ ret.ambiguous
    /\ ret.scores[2].total_score = ret.scores[1].total_score
    /\ ret.selected[1].id = call.scaffolds[1].id

\* the best total among the candidates of the first pass
BestFirstPass ==
    BestSoFar(SelectSeq(ret.scores, LAMBDA sc : sc.scaffold_id \in Ids(obs.candidates)))

\* a scoring call that got past the early return and pruned by the index
Pruned ==
    Scored /\ call.scaffolds # <<>> /\ call.user_input # <<>>

Matched == call.op = "match_scaffold"

\* the tokens of the keywords and intent phrases of a template
MatchTokensOf(scaffold) ==
    UNION {_tokenize(scaffold.keywords[i]) : i \in 1..Len(scaffold.keywords)}
        \cup UNION {_tokenize(scaffold.intent_signals[i]) :
                        i \in 1..Len(scaffold.intent_signals)}

\* the template's description shares the minimum overlap with the input
DescriptionOverlaps(scaffold, user_input) ==
    Cardinality(_tokenize(scaffold.description) \cap _tokenize(user_input))
        >= _DEFAULT_MACRO_MIN_OVERLAP

\* C9: the macro fallback runs when candidate pruning finds no candidate:
\* with no SelectionParams supplied, if no keyword or intent-phrase token of
\* any template occurs in the input but a template's description shares at
\* least the minimum overlap with the input, match_scaffold selects a template
\* (the result is not None).
C9_MacroFallbackByDefault ==
    (/\ Matched
     /\ call.params = None
     /\ \A i \in 1..Len(call.scaffolds) :
            MatchTokensOf(call.scaffolds[i]) \cap _tokenize(call.user_input) = {}
     /\ \E i \in 1..Len(call.scaffolds) :
            DescriptionOverlaps(call.scaffolds[i], call.user_input))
        => /\ ret.selected # None
           /\ DescriptionOverlaps(ret.selected[1], call.user_input)

\* the first template of the list that names the tool, None when none does
FirstWithTool(scaffolds, tool_name) ==
    LET at == {i \in 1..Len(scaffolds) : tool_name \in Range(scaffolds[i].tools)}
    IN  IF at = {} THEN None
        ELSE Some(scaffolds[CHOOSE i \in at : \A j \in at : i <= j])

\* what the cascade is to return for a call made on the two structures given
CascadeResult(cache, index, c) ==
    IF c.caller_scaffold_id # None /\ FindById(c.scaffolds, c.caller_scaffold_id[1]) # None
    THEN FindById(c.scaffolds, c.caller_scaffold_id[1])
    ELSE IF FirstWithTool(c.scaffolds, c.tool_name) # None
    THEN FirstWithTool(c.scaffolds, c.tool_name)
    ELSE IF c.user_input # <<>>
    THEN _score_scaffolds_layered(cache, index, c.scaffolds, c.user_input,
                                  EffectiveParams(c.params, c.selection_bias)).selected
    ELSE None

\* C10: match_scaffold follows the priority cascade: a registered
\* caller_scaffold_id is returned whatever the tool name and input; otherwise
\* the first-registered template that lists tool_name, whatever the input;
\* otherwise, with non-empty input, the layered-scoring result; otherwise
\* None. An unregistered caller_scaffold_id falls through to the later stages.
C10_PriorityCascade ==
    [][call'.op = "match_scaffold" =>
          ret'.selected = CascadeResult(_cache, _token_to_scaffold_ids, call')]_vars

\* an unregistered caller id falls through to the tool stage, where the first
\* registered of two templates that list the tool is returned
C10_Witness ==
    /\ Matched
    /\ call.caller_scaffold_id # None
    /\ FindById(call.scaffolds, call.caller_scaffold_id[1]) = None
    /\ Len(call.scaffolds) = 2
    /\ \A i \in 1..2 : call.tool_name \in Range(call.scaffolds[i].tools)
    /\ ret.selected = Some(call.scaffolds[1])

\* the score the list returned holds for the template with the id
ScoreOf(scores, scaffold_id) ==
    scores[CHOOSE i \in 1..Len(scores) : scores[i].scaffold_id = scaffold_id]

\* the template was pruned by the index and the second pass did not promote it
LeftUnscored(scaffold) ==
    /\ scaffold.id \notin Ids(obs.candidates)
    /\ \/ FloorOf(call.params) = 0
       \/ BestFirstPass >= FloorOf(call.params)
       \/ _score_macro(scaffold, _tokenize(call.user_input), call.params)
             <= activation(call.params)

\* C11: for a non-empty input and a non-empty template list the score list
\* holds exactly one ScaffoldScore per template, ordered by non-increasing
\* total_score; a template pruned and not promoted by the second pass appears
\* with total_score 0 and all four layer values 0.
C11_OneScorePerTemplate ==
    Pruned =>
        /\ Len(ret.scores) = Len(call.scaffolds)
        /\ \A i \in 1..Len(call.scaffolds) :
              Cardinality({k \in 1..Len(ret.scores) :
                  ret.scores[k].scaffold_id = call.scaffolds[i].id}) = 1
        /\ \A k \in 1..(Len(ret.scores) - 1) :
              ret.scores[k].total_score >= ret.scores[k + 1].total_score
        /\ \A i \in 1..Len(call.scaffolds) :
              LeftUnscored(call.scaffolds[i]) =>
                  /\ ScoreOf(ret.scores, call.scaffolds[i].id).total_score = 0
                  /\ ScoreOf(ret.scores, call.scaffolds[i].id).layers
                        = [micro |-> 0, meso |-> 0, macro |-> 0, meta |-> 0]

\* a candidate scores while a pruned template whose description overlaps the
\* input is listed after it with all layers 0
C11_Witness ==
    /\ Pruned
    /\ Len(ret.scores) = 2
    /\ ret.scores[1].total_score > 0
    /\ \E i \in 1..2 :
          /\ LeftUnscored(call.scaffolds[i])
          /\ _score_macro(call.scaffolds[i], _tokenize(call.user_input),
                          call.params) > 0
          /\ ret.scores[2] = ZeroScore(call.scaffolds[i].id)

(***************************************************************************)
(* The detection kernel: NativeBackend.detect (mantic_adapter.py).         *)
(* Layer values and thresholds are counted in ten-thousandths, weights in  *)
(* sixtieths (1/2, 1/3, 1/4 and 1/5 are exact), results in the units their *)
(* round() call keeps: millionths for m_score, spatial_component and       *)
(* coherence, tenths of a percent for the attribution, thousandths for the *)
(* agreement of a tension pair.                                            *)
(***************************************************************************)
ValueOne == 100 * 100
WeightOne == 6 * 10
Million == 1000 * 1000

\* round(a / b, ndigits) counted in units of the last digit kept: Python
\* rounds to the nearest, and a value half-way to the even one
RoundDiv(a, b) ==
    LET num == IF b < 0 THEN -a ELSE a
        den == IF b < 0 THEN -b ELSE b
        q == num \div den
        r == num % den
    IN  IF 2 * r < den THEN q
        ELSE IF 2 * r > den THEN q + 1
        ELSE IF q % 2 = 0 THEN q ELSE q + 1

\* the largest r in lo..hi with r * r <= x
RECURSIVE ISqrtBetween(_, _, _)
ISqrtBetween(x, lo, hi) ==
    IF lo >= hi THEN lo
    ELSE LET mid == (lo + hi + 1) \div 2
         IN  IF mid * mid <= x THEN ISqrtBetween(x, mid, hi)
             ELSE ISqrtBetween(x, lo, mid - 1)

\* math.sqrt of a whole number, rounded down
ISqrt(x) == ISqrtBetween(x, 0, 46340)

\* 1 / math.sqrt(n) in thousandths
InvSqrtThousandths(n) == RoundDiv(Million, ISqrt(n * Million))

\* sum, max and min of a list of numbers
RECURSIVE SumList(_)
SumList(xs) == IF xs = <<>> THEN 0 ELSE xs[1] + SumList(Tail(xs))
MaxOf(xs) == CHOOSE m \in Range(xs) : \A x \in Range(xs) : x <= m
MinOf(xs) == CHOOSE m \in Range(xs) : \A x \in Range(xs) : m <= x

\* vals.index(max(vals)): the first position of the largest value
IndexOfMax(vals) ==
    CHOOSE i \in 1..Len(vals) :
        /\ vals[i] = MaxOf(vals)
        /\ \A j \in 1..(i - 1) : vals[j] # MaxOf(vals)

\* raise ValueError(message), and the errors the interpreter raises itself
RaiseValueError(message) ==
    [kind |-> "raise", error |-> "ValueError", message |-> message]
RaiseBuiltin(error) ==
    [kind |-> "raise", error |-> error, message |-> ""]

\* the validation of lines 68-74, <<>> when the arguments pass
Validate(layer_names, layer_values, mode) ==
    IF Len(layer_names) # Len(layer_values)
    THEN Some(RaiseValueError("layer_names and layer_values must have the same length"))
    ELSE IF Len(layer_names) < 2
    THEN Some(RaiseValueError("at least 2 layers required"))
    ELSE IF mode \notin {"friction", "emergence"}
    THEN Some(RaiseValueError("mode must be 'friction' or 'emergence'"))
    ELSE None

\* w = list(weights) if weights is not None else [1.0 / n] * n
WeightsUsed(given_weights, n) ==
    IF given_weights # None THEN given_weights[1] ELSE [i \in 1..n |-> WeightOne \div n]

\* contributions = [w[i] * layer_values[i] for i in range(n)]
Contributions(w, layer_values) ==
    [i \in 1..Len(layer_values) |-> w[i] * layer_values[i]]

\* the attribution dict: a later layer of the same name overwrites an earlier
Attribution(layer_names, contributions) ==
    LET attr_total == SumList(contributions)
        Percent(c) == IF attr_total # 0 THEN RoundDiv(c * 1000, attr_total)
                      ELSE RoundDiv(c * 1000, WeightOne * ValueOne)
        Last(nm) == CHOOSE i \in 1..Len(layer_names) :
                        /\ layer_names[i] = nm
                        /\ \A j \in (i + 1)..Len(layer_names) : layer_names[j] # nm
    IN  [nm \in Range(layer_names) |-> Percent(contributions[Last(nm)])]

\* coherence = max(0.0, 1.0 - sigma / coherence_divisor), with the standard
\* deviation sqrt(n * sum(v^2) - sum(v)^2) / n kept to four decimals
Coherence(vals, coherence_divisor) ==
    LET n == Len(vals)
        squares == SumList([i \in 1..n |-> vals[i] * vals[i]])
        spread2 == n * squares - SumList(vals) * SumList(vals)
        ratio == RoundDiv(ISqrt(spread2) * ValueOne, n * coherence_divisor)
    IN  Max(0, Million - 100 * ratio)

\* the signal when no friction is reported (lines 104-111)
NoFriction(vals, detection_threshold) ==
    IF MinOf(vals) > detection_threshold THEN "emergence_window" ELSE "baseline"

\* a friction test that fires on a spread equal to the threshold
SignalLoose(vals, mode, detection_threshold) ==
    IF mode = "friction" /\ MaxOf(vals) - MinOf(vals) >= detection_threshold
    THEN "friction_detected"
    ELSE NoFriction(vals, detection_threshold)

\* the signal of lines 99-111
Signal(vals, mode, detection_threshold) ==
    IF mode = "friction" /\ MaxOf(vals) - MinOf(vals) > detection_threshold
    THEN "friction_detected"
    ELSE NoFriction(vals, detection_threshold)

\* agreement = max(0.0, 1.0 - abs(vals[i] - vals[j]))
Agreement(a, b) ==
    Max(0, ValueOne - (IF a >= b THEN a - b ELSE b - a))

\* the index pairs in the order of the two loops of lines 118-119
PairsInOrder(n) ==
    LET P == {p \in (1..n) \X (1..n) : p[1] < p[2]}
        Before(q, p) == q[1] < p[1] \/ (q[1] = p[1] /\ q[2] < p[2])
    IN  [k \in 1..Cardinality(P) |->
            CHOOSE p \in P : Cardinality({q \in P : Before(q, p)}) = k - 1]

\* pairs that are reported when the agreement reaches the threshold
TensionPairsLoose(layer_names, vals, tension_threshold) ==
    LET under == SelectSeq(PairsInOrder(Len(vals)), LAMBDA p :
                    Agreement(vals[p[1]], vals[p[2]]) <= tension_threshold)
    IN  [k \in 1..Len(under) |->
            <<layer_names[under[k][1]], layer_names[under[k][2]],
              RoundDiv(Agreement(vals[under[k][1]], vals[under[k][2]]), 10)>>]

\* the tension pairs of lines 116-124, the agreement rounded to 3 decimals
TensionPairs(layer_names, vals, tension_threshold) ==
    LET under == SelectSeq(PairsInOrder(Len(vals)), LAMBDA p :
                    Agreement(vals[p[1]], vals[p[2]]) < tension_threshold)
    IN  [k \in 1..Len(under) |->
            <<layer_names[under[k][1]], layer_names[under[k][2]],
              RoundDiv(Agreement(vals[under[k][1]], vals[under[k][2]]), 10)>>]

\* a composite score that leaves f_time out
MScoreUnscaled(total, f_time, n) ==
    RoundDiv(total * InvSqrtThousandths(n),
             (WeightOne * ValueOne * 1000) \div Million)

\* round(total * f_time / math.sqrt(n), 6)
MScore(total, f_time, n) ==
    RoundDiv(total * f_time * InvSqrtThousandths(n),
             (WeightOne * ValueOne * 1000) \div Million)

\* NativeBackend.detect: the DetectionResult returned or the error raised
detect(layer_names, layer_values, given_weights, mode, f_time, detection_threshold, tension_threshold, coherence_divisor) ==
    LET n == Len(layer_names)
        w == WeightsUsed(given_weights, n)
        contributions == Contributions(w, layer_values)
        total == SumList(contributions)
    IN  IF Validate(layer_names, layer_values, mode) # None
        THEN Validate(layer_names, layer_values, mode)[1]
        ELSE IF Len(w) < n THEN RaiseBuiltin("IndexError")
        ELSE IF coherence_divisor = 0 THEN RaiseBuiltin("ZeroDivisionError")
        ELSE [kind |-> "DetectionResult",
              m_score |-> MScore(total, f_time, n),
              spatial_component |-> RoundDiv(total * 100, WeightOne),
              layer_attribution |-> Attribution(layer_names, contributions),
              signal |-> Signal(layer_values, mode, detection_threshold),
              dominant_layer |-> layer_names[IndexOfMax(layer_values)],
              coherence |-> Coherence(layer_values, coherence_divisor),
              tension_pairs |-> TensionPairs(layer_names, layer_values,
                                             tension_threshold),
              backend_used |-> "cip_native"]

(***************************************************************************)
(* The kernel's inputs and its state machine: each call is one step.       *)
(***************************************************************************)
MaxLayers == 3

LayerNames == <<"micro", "meso", "macro", "meta", "fifth", "sixth">>
FirstNames(n) == [i \in 1..n |-> LayerNames[i]]

\* -0.5, 0.1234, 0.5 and 1.0
ValuePool == {-5000, 1234, 5000, 10000}
LayerValuesPool == UNION {[1..n -> ValuePool] : n \in 0..MaxLayers}

\* the name lists a value list is passed with: as many names as values, and
\* for the lists of equal values also one name more and one name less
NamesFor(layer_values) ==
    {FirstNames(Len(layer_values))}
        \cup IF \A i \in 1..Len(layer_values) : layer_values[i] = 5000
             THEN {FirstNames(Len(layer_values) + 1)}
                    \cup {FirstNames(Len(layer_values) - 1) : k \in 1..Len(layer_values)}
             ELSE {}

WeightsPool == {None, Some(<<60>>), Some(<<30, 30>>), Some(<<30, 30, 60>>)}
ModePool == {"friction", "emergence", "invalid"}
FTimePool == {1, 2}
DetectionThresholdPool == {4000, 5000}
TensionThresholdPool == {5000}
CoherenceDivisorPool == {5000, 0}

\* the calls of NativeBackend().detect made with one list of values
DetectCallsWith(layer_values) ==
    {[op |-> "detect", layer_names |-> layer_names,
      layer_values |-> layer_values, weights |-> given_weights,
      mode |-> mode, f_time |-> f_time,
      detection_threshold |-> detection_threshold,
      tension_threshold |-> tension_threshold,
      coherence_divisor |-> coherence_divisor] :
        layer_names \in NamesFor(layer_values), given_weights \in WeightsPool,
        mode \in ModePool, f_time \in FTimePool,
        detection_threshold \in DetectionThresholdPool,
        tension_threshold \in TensionThresholdPool,
        coherence_divisor \in CoherenceDivisorPool}

\* the calls of NativeBackend().detect that are made
DetectCalls == UNION {DetectCallsWith(layer_values) : layer_values \in LayerValuesPool}

\* a call of the kernel is about to be made
InitKernel ==
    /\ registry = <<>>
    /\ by_tool = EmptyDict
    /\ _cache = EmptyDict
    /\ _token_to_scaffold_ids = EmptyDict
    /\ call \in DetectCalls
    /\ ret = Nothing
    /\ obs = Nothing
    /\ self = Nothing
    /\ frames = Nothing

\* the result of a call of the kernel made with the arguments c
DetectOf(c) ==
    detect(c.layer_names, c.layer_values, c.weights, c.mode, c.f_time,
           c.detection_threshold, c.tension_threshold, c.coherence_divisor)

\* NativeBackend().detect(layer_names=..., layer_values=..., ...)
Detect ==
    /\ call.op = "detect"
    /\ ret = Nothing
    /\ ret' = DetectOf(call)
    /\ UNCHANGED <<registry, by_tool, _cache, _token_to_scaffold_ids, call, obs, self, frames>>

NextKernel ==
    \/ Detect

\* the detection kernel called on every input of the pools
SpecKernel == InitKernel /\ [][NextKernel]_vars

Detected == call.op = "detect" /\ ret # Nothing


Returned == Detected /\ ret.kind = "DetectionResult"
RaisedValueError == Detected /\ ret.kind = "raise" /\ ret.error = "ValueError"

\* C12: detect fails fast with a ValueError whenever the number of layer
\* names differs from the number of layer values, or fewer than 2 layers are
\* given, or mode is neither "friction" nor "emergence"; for every other
\* input it returns a DetectionResult and does not raise.
C12_ValidationTotal ==
    Detected =>
        IF \/ Len(call.layer_names) # Len(call.layer_values)
           \/ Len(call.layer_names) < 2
           \/ call.mode \notin {"friction", "emergence"}
        THEN RaisedValueError
        ELSE Returned

\* C13: given weights whose length differs from the number of layers, detect
\* fails with a ValueError; it never ignores surplus weights and never
\* computes from a partial weight vector.
C13_MismatchedWeightsRejected ==
    (/\ Detected
     /\ call.weights # None
     /\ Len(call.weights[1]) # Len(call.layer_names))
        => RaisedValueError

\* C14: the signal is a total three-way classification with fixed
\* precedence: in friction mode "friction_detected" iff max - min >
\* threshold, otherwise "emergence_window" iff min > threshold, otherwise
\* "baseline"; in emergence mode "emergence_window" iff min > threshold and
\* "baseline" otherwise, never "friction_detected". All comparisons are strict.
C14_SignalClassification ==
    Returned =>
        LET hi == MaxOf(call.layer_values)
            lo == MinOf(call.layer_values)
            thr == call.detection_threshold
        IN  /\ ret.signal \in {"friction_detected", "emergence_window", "baseline"}
            /\ ret.signal = "friction_detected"
                  <=> (call.mode = "friction" /\ hi - lo > thr)
            /\ ret.signal = "emergence_window"
                  <=> (~(call.mode = "friction" /\ hi - lo > thr) /\ lo > thr)
            /\ call.mode = "emergence" => ret.signal # "friction_detected"

\* in friction mode a spread equal to the threshold is no friction, and a
\* minimum equal to the threshold is no emergence window
C14_Witness ==
    /\ Returned
    /\ call.mode = "friction"
    /\ MaxOf(call.layer_values) - MinOf(call.layer_values) = call.detection_threshold
    /\ MinOf(call.layer_values) = call.detection_threshold
    /\ ret.signal = "baseline"

\* the position of a layer name in the list of names of the call
LayerIndex(nm) == CHOOSE i \in 1..Len(call.layer_names) : call.layer_names[i] = nm

\* C18: tension pairs are exactly the unordered layer pairs in disagreement:
\* (name_i, name_j, agreement) is reported iff i < j and agreement =
\* max(0, 1 - |L_i - L_j|) is strictly below the tension threshold; agreement
\* is symmetric, no layer is paired with itself, no pair is reported twice,
\* and the pairs appear with i ascending, then j ascending. The agreement
\* reported is the agreement rounded to three decimals.
C18_TensionPairs ==
    Returned =>
        LET pairs == ret.tension_pairs
            vals == call.layer_values
            n == Len(vals)
            I(k) == LayerIndex(pairs[k][1])
            J(k) == LayerIndex(pairs[k][2])
        IN  /\ \A i \in 1..n, j \in 1..n :
                  (\E k \in 1..Len(pairs) :
                        /\ pairs[k][1] = call.layer_names[i]
                        /\ pairs[k][2] = call.layer_names[j])
                    <=> /\ i < j
                        /\ Max(0, ValueOne - (IF vals[i] > vals[j]
                                              THEN vals[i] - vals[j]
                                              ELSE vals[j] - vals[i]))
                              < call.tension_threshold
            /\ \A i \in 1..n, j \in 1..n :
                  Agreement(vals[i], vals[j]) = Agreement(vals[j], vals[i])
            /\ \A k \in 1..Len(pairs) :
                  /\ pairs[k][1] # pairs[k][2]
                  /\ pairs[k][3] = RoundDiv(Agreement(vals[I(k)], vals[J(k)]), 10)
            /\ \A k \in 1..Len(pairs), l \in 1..Len(pairs) :
                  k < l => \/ I(k) < I(l)
                           \/ I(k) = I(l) /\ J(k) < J(l)

\* of three layers two pairs disagree and are reported in order, one of them
\* with an agreement that rounding changes, and the third pair is left out
C18_Witness ==
    /\ Returned
    /\ Len(call.layer_values) = 3
    /\ Len(ret.tension_pairs) = 2
    /\ \E k \in 1..2 :
          ret.tension_pairs[k][3] * 10
              # Agreement(call.layer_values[LayerIndex(ret.tension_pairs[k][1])],
                          call.layer_values[LayerIndex(ret.tension_pairs[k][2])])

\* the spatial component of the call before rounding: sum of w_i * L_i
SpatialOf(c) ==
    SumList(Contributions(WeightsUsed(c.weights, Len(c.layer_names)), c.layer_values))

\* the sum of the attributions returned and its distance from 100 percent
AttributionSum ==
    SumList([i \in 1..Len(call.layer_names) |->
                ret.layer_attribution[call.layer_names[i]]])
AttributionOff ==
    IF AttributionSum >= 1000 THEN AttributionSum - 1000 ELSE 1000 - AttributionSum

\* whenever the spatial component is nonzero the attributions sum to 100
\* within the rounding of one decimal per layer
AttributionSumsTo100 ==
    (Returned /\ SpatialOf(call) # 0) => 2 * AttributionOff <= Len(call.layer_names)

\* C19: layer attribution is w_i * L_i as a percentage of the spatial
\* component: when the spatial component is nonzero the attributions sum to
\* 100 within rounding error, and when it is zero the denominator is taken as
\* 1 and every layer's attribution is 0, for any weights and values.
C19_Attribution ==
    /\ AttributionSumsTo100
    /\ (Returned /\ SpatialOf(call) = 0) =>
          \A nm \in DOMAIN ret.layer_attribution : ret.layer_attribution[nm] = 0

\* the result of the same call made with f_time = 1
BaseResult == DetectOf([call EXCEPT !.f_time = 1])

\* everything of a result but its m_score
WithoutMScore(r) ==
    [spatial_component |-> r.spatial_component,
     layer_attribution |-> r.layer_attribution, coherence |-> r.coherence,
     signal |-> r.signal, dominant_layer |-> r.dominant_layer,
     tension_pairs |-> r.tension_pairs]

\* C20 as stated: the m_score returned with f_time = 2 equals twice the
\* m_score returned with f_time = 1 for the same layers and weights, and the
\* rest of the result does not depend on f_time.
C20_LinearInFTimeExact ==
    (Returned /\ call.f_time = 2) =>
        /\ ret.m_score = 2 * BaseResult.m_score
        /\ WithoutMScore(ret) = WithoutMScore(BaseResult)

\* C20: the m_score returned with f_time = 2 is twice the m_score returned
\* with f_time = 1 up to the rounding of both to six decimals (they differ by
\* at most one millionth), and spatial_component, attribution, coherence,
\* signal, dominant layer and tension pairs are unaffected by f_time.
C20_LinearInFTime ==
    (Returned /\ call.f_time = 2) =>
        /\ ret.m_score - 2 * BaseResult.m_score \in {-1, 0, 1}
        /\ WithoutMScore(ret) = WithoutMScore(BaseResult)

\* a call with f_time = 2 whose m_score is one millionth off twice the
\* m_score of f_time = 1
C20_Witness ==
    /\ Returned
    /\ call.f_time = 2
    /\ ret.m_score > 0
    /\ ret.m_score # 2 * BaseResult.m_score

(***************************************************************************)
(* Argument analysis: classify_fallacy over _FALLACY_SIGNATURES.           *)
(***************************************************************************)
_ARGUMENT_LAYERS ==
    <<"premise_strength", "inferential_link", "structural_validity",
      "scope_consistency">>

\* the names of _FALLACY_SIGNATURES in the order of the list
_FALLACY_SIGNATURES ==
    <<"straw_man", "false_dilemma", "affirming_the_consequent",
      "circular_reasoning", "appeal_to_authority", "hasty_generalization",
      "non_sequitur">>

\* sig["predicate"](v) of the signature with the name
Predicate(name, v) ==
    CASE name = "straw_man" ->
            /\ v["premise_strength"] > 4000
            /\ v["inferential_link"] > 4000
            /\ v["structural_validity"] > 4000
            /\ v["scope_consistency"] < 3000
      [] name = "false_dilemma" ->
            /\ v["premise_strength"] > 5000
            /\ v["inferential_link"] > 4000
            /\ v["structural_validity"] < 4000
            /\ v["scope_consistency"] < 3000
      [] name = "affirming_the_consequent" ->
            /\ v["premise_strength"] > 6000
            /\ v["inferential_link"] < 3000
            /\ v["structural_validity"] < 3500
      [] name = "circular_reasoning" ->
            /\ v["inferential_link"] > 6000
            /\ v["structural_validity"] < 3000
            /\ v["premise_strength"] < 5000
      [] name = "appeal_to_authority" ->
            /\ v["premise_strength"] < 3000
            /\ v["inferential_link"] > 5000
            /\ v["structural_validity"] > 5000
      [] name = "hasty_generalization" ->
            /\ 4000 < v["premise_strength"]
            /\ v["premise_strength"] < 7000
            /\ v["scope_consistency"] < 3000
      [] name = "non_sequitur" ->
            /\ v["premise_strength"] > 4000
            /\ v["inferential_link"] < 2000
            /\ v["structural_validity"] > 4000

\* the layers the predicate of a signature reads: the number of constraints
\* the comments of the list count its sections by (4, then 3, then 2)
ConstrainedLayers(name) ==
    CASE name \in {"straw_man", "false_dilemma"} ->
            {"premise_strength", "inferential_link", "structural_validity",
             "scope_consistency"}
      [] name \in {"affirming_the_consequent", "circular_reasoning",
                   "appeal_to_authority", "non_sequitur"} ->
            {"premise_strength", "inferential_link", "structural_validity"}
      [] name = "hasty_generalization" ->
            {"premise_strength", "scope_consistency"}

\* a search that falls back on the last signature of the list
FirstMatchOrLast(layer_values) ==
    LET hits == {k \in 1..Len(_FALLACY_SIGNATURES) :
                    Predicate(_FALLACY_SIGNATURES[k], layer_values)}
    IN  IF hits = {} THEN Some(_FALLACY_SIGNATURES[Len(_FALLACY_SIGNATURES)])
        ELSE Some(_FALLACY_SIGNATURES[CHOOSE k \in hits : \A l \in hits : k <= l])

\* for sig in _FALLACY_SIGNATURES: if sig["predicate"](layer_values): the
\* first signature whose predicate holds, None when the loop ends
FirstMatch(layer_values) ==
    LET hits == {k \in 1..Len(_FALLACY_SIGNATURES) :
                    Predicate(_FALLACY_SIGNATURES[k], layer_values)}
    IN  IF hits = {} THEN None
        ELSE Some(_FALLACY_SIGNATURES[CHOOSE k \in hits : \A l \in hits : k <= l])

\* max(0.0, min(1.0, x)) in millionths
Clamp01(x) == Max(0, Min(Million, x))

\* classify_fallacy(result, layer_values); list(layer_values.keys()) is the
\* caller's key order, which the calls made here take from _ARGUMENT_LAYERS
classify_fallacy(result, layer_values) ==
    IF result.signal # "friction_detected"
    THEN [kind |-> "FallacyResult", name |-> "valid_argument", is_valid |-> TRUE,
          confidence |-> Clamp01(result.coherence), matching_layers |-> <<>>]
    ELSE IF FirstMatch(layer_values) # None
    THEN [kind |-> "FallacyResult", name |-> FirstMatch(layer_values)[1],
          is_valid |-> FALSE,
          confidence |-> Clamp01(Million - result.coherence),
          matching_layers |-> SelectSeq(_ARGUMENT_LAYERS,
                                        LAMBDA nm : nm \in DOMAIN layer_values)]
    ELSE [kind |-> "FallacyResult", name |-> "unclassified_friction",
          is_valid |-> FALSE,
          confidence |-> Clamp01(Million - result.coherence),
          matching_layers |-> _ARGUMENT_LAYERS]

\* 0.1, 0.25, 0.4, 0.55 and 0.8
FallacyValuePool == {1000, 2500, 4000, 5500, 8000}
SignalPool == {"friction_detected", "emergence_window", "baseline"}
CoherencePool == {0, 400000, Million}

\* the calls of classify_fallacy that are made
ClassifyCalls ==
    {[op |-> "classify_fallacy",
      result |-> [kind |-> "DetectionResult", signal |-> signal,
                  coherence |-> coherence],
      layer_values |-> layer_values] :
        signal \in SignalPool, coherence \in CoherencePool,
        layer_values \in [Range(_ARGUMENT_LAYERS) -> FallacyValuePool]}

\* a call of classify_fallacy is about to be made
InitFallacy ==
    /\ registry = <<>>
    /\ by_tool = EmptyDict
    /\ _cache = EmptyDict
    /\ _token_to_scaffold_ids = EmptyDict
    /\ call \in ClassifyCalls
    /\ ret = Nothing
    /\ obs = Nothing
    /\ self = Nothing
    /\ frames = Nothing

\* classify_fallacy(result, layer_values)
ClassifyFallacy ==
    /\ call.op = "classify_fallacy"
    /\ ret = Nothing
    /\ ret' = classify_fallacy(call.result, call.layer_values)
    /\ UNCHANGED <<registry, by_tool, _cache, _token_to_scaffold_ids, call, obs, self, frames>>

NextFallacy ==
    \/ ClassifyFallacy

\* classify_fallacy called on every input of the pools
SpecFallacy == InitFallacy /\ [][NextFallacy]_vars

Classified == call.op = "classify_fallacy" /\ ret # Nothing

\* the signatures whose predicate holds for the values of the call
Matching ==
    {_FALLACY_SIGNATURES[k] : k \in {l \in 1..Len(_FALLACY_SIGNATURES) :
        Predicate(_FALLACY_SIGNATURES[l], call.layer_values)}}

\* C15: classify_fallacy never guesses: without friction the result is
\* "valid_argument" with is_valid = True whatever the values; with friction
\* and no rule predicate holding it is "unclassified_friction" with is_valid
\* = False; a named fallacy is returned only under friction and when that
\* fallacy's own predicate holds for the values.
C15_NeverGuesses ==
    Classified =>
        /\ call.result.signal # "friction_detected"
              => ret.name = "valid_argument" /\ ret.is_valid
        /\ (call.result.signal = "friction_detected" /\ Matching = {})
              => ret.name = "unclassified_friction" /\ ~ret.is_valid
        /\ ret.name \notin {"valid_argument", "unclassified_friction"}
              => /\ call.result.signal = "friction_detected"
                 /\ ret.name \in Matching
                 /\ ~ret.is_valid

\* values that satisfy a rule are classified valid when there is no friction
C15_Witness ==
    /\ Classified
    /\ call.result.signal = "baseline"
    /\ Matching # {}
    /\ ret.name = "valid_argument"
    /\ ret.is_valid

\* C16: the rule table is evaluated most-specific-first with first match
\* wins: for every input that satisfies several rule predicates under
\* friction, the fallacy returned is one with the largest number of
\* constraints among the matching rules.
C16_MostSpecificFirst ==
    (Classified /\ call.result.signal = "friction_detected" /\ Matching # {})
        => \A name \in Matching :
              Cardinality(ConstrainedLayers(ret.name))
                  >= Cardinality(ConstrainedLayers(name))

(***************************************************************************)
(* Guardrail aggregation (llm/response.py).  An evaluator is modelled by   *)
(* the GuardrailEvaluation it returns for the content checked and by       *)
(* whether it has an async_evaluate that returns an awaitable.             *)
(***************************************************************************)
GuardrailEvaluation(evaluator_name, flags, hard_violations, matched_phrases, detection_result) ==
    [evaluator_name |-> evaluator_name, flags |-> flags,
     hard_violations |-> hard_violations, matched_phrases |-> matched_phrases,
     metadata |-> [detection_result |-> detection_result]]

\* the concatenation of a list of lists
RECURSIVE Extend(_)
Extend(lists) == IF lists = <<>> THEN <<>> ELSE lists[1] \o Extend(Tail(lists))

\* the detection result of the first finding named mantic_safety (lines 437-443)
ManticSafety(results) ==
    LET at == {k \in 1..Len(results) : results[k].evaluator_name = "mantic_safety"}
    IN  IF at = {} THEN None
        ELSE results[CHOOSE k \in at : \A l \in at : k <= l].metadata.detection_result

\* an aggregation that takes its verdict from the last evaluation alone
AggregateLastVerdict(results) ==
    [kind |-> "GuardrailCheck",
     passed |-> results = <<>> \/ results[Len(results)].hard_violations = <<>>,
     flags |-> Extend([k \in 1..Len(results) |-> results[k].flags]),
     hard_violations |-> results[Len(results)].hard_violations,
     matched_phrases |-> Extend([k \in 1..Len(results) |-> results[k].matched_phrases]),
     evaluator_findings |-> results,
     mantic_safety |-> ManticSafety(results)]

\* _aggregate_results
_aggregate_results(results) ==
    [kind |-> "GuardrailCheck",
     passed |-> Extend([k \in 1..Len(results) |-> results[k].hard_violations]) = <<>>,
     flags |-> Extend([k \in 1..Len(results) |-> results[k].flags]),
     hard_violations |-> Extend([k \in 1..Len(results) |-> results[k].hard_violations]),
     matched_phrases |-> Extend([k \in 1..Len(results) |-> results[k].matched_phrases]),
     evaluator_findings |-> results,
     mantic_safety |-> ManticSafety(results)]

\* check_guardrails with a non-empty list of evaluators
check_guardrails(evaluators) ==
    _aggregate_results([k \in 1..Len(evaluators) |-> evaluators[k].evaluation])

\* check_guardrails_async with a non-empty list of evaluators: the results of
\* the evaluators without an awaitable first, then those asyncio.gather
\* returns, in the order of the coroutines
check_guardrails_async(evaluators) ==
    LET sync == SelectSeq(evaluators, LAMBDA ev : ~ev.awaitable)
        async == SelectSeq(evaluators, LAMBDA ev : ev.awaitable)
        both == sync \o async
    IN  _aggregate_results([k \in 1..Len(both) |-> both[k].evaluation])

MaxEvaluators == 3

EvaluationPool ==
    {GuardrailEvaluation("escalation_trigger", <<"escalate">>, <<>>, <<>>, None),
     GuardrailEvaluation("prohibited_pattern", <<"blocked", "escalate">>,
                         <<"blocked">>, <<"guaranteed">>, None),
     GuardrailEvaluation("mantic_safety", <<>>, <<>>, <<>>, Some("friction_detected"))}
EvaluatorPool ==
    {[evaluation |-> e, awaitable |-> a] : e \in EvaluationPool, a \in BOOLEAN}
EvaluatorLists == UNION {[1..n -> EvaluatorPool] : n \in 1..MaxEvaluators}

\* a guardrail check is about to be made
InitGuardrail ==
    /\ registry = <<>>
    /\ by_tool = EmptyDict
    /\ _cache = EmptyDict
    /\ _token_to_scaffold_ids = EmptyDict
    /\ call \in {[op |-> op, evaluators |-> evaluators] :
                    op \in {"check_guardrails", "check_guardrails_async"},
                    evaluators \in EvaluatorLists}
    /\ ret = Nothing
    /\ obs = Nothing
    /\ self = Nothing
    /\ frames = Nothing

\* check_guardrails(content, scaffold, evaluators=evaluators)
CheckGuardrails ==
    /\ call.op = "check_guardrails"
    /\ ret = Nothing
    /\ ret' = check_guardrails(call.evaluators)
    /\ UNCHANGED <<registry, by_tool, _cache, _token_to_scaffold_ids, call, obs, self, frames>>

\* await check_guardrails_async(content, scaffold, evaluators=evaluators)
CheckGuardrailsAsync ==
    /\ call.op = "check_guardrails_async"
    /\ ret = Nothing
    /\ ret' = check_guardrails_async(call.evaluators)
    /\ UNCHANGED <<registry, by_tool, _cache, _token_to_scaffold_ids, call, obs, self, frames>>

NextGuardrail ==
    \/ CheckGuardrails
    \/ CheckGuardrailsAsync

\* guardrail checks over every list of evaluators of the pool
SpecGuardrail == InitGuardrail /\ [][NextGuardrail]_vars


Checked == call.op \in {"check_guardrails", "check_guardrails_async"} /\ ret # Nothing

\* what the claim compares of a GuardrailCheck
Verdict(check) ==
    [passed |-> check.passed, flags |-> Range(check.flags),
     hard_violations |-> Range(check.hard_violations)]

\* the evaluators of the call in another order and with another split into
\* evaluators with and without an awaitable
Rearranged(perm, awaitable) ==
    [k \in 1..Len(call.evaluators) |->
        [evaluation |-> call.evaluators[perm[k]].evaluation,
         awaitable |-> awaitable[k]]]

\* C17: guardrail aggregation is order-independent: passed is True iff no
\* evaluator reported a hard violation, and passed, the set of flags and the
\* set of hard violations are the same for every permutation of the
\* evaluators and every split into sync and async evaluators, for
\* check_guardrails and check_guardrails_async alike.
C17_AggregationOrderIndependent ==
    Checked =>
        /\ ret.passed <=> \A k \in 1..Len(call.evaluators) :
                             call.evaluators[k].evaluation.hard_violations = <<>>
        /\ \A perm \in Permutations(1..Len(call.evaluators)),
              awaitable \in [1..Len(call.evaluators) -> BOOLEAN] :
                /\ Verdict(check_guardrails(Rearranged(perm, awaitable))) = Verdict(ret)
                /\ Verdict(check_guardrails_async(Rearranged(perm, awaitable)))
                      = Verdict(ret)

\* an async check whose results come in another order than the evaluators:
\* the lists differ from those of the sync check, the verdict does not
C17_Witness ==
    /\ Checked
    /\ call.op = "check_guardrails_async"
    /\ ~ret.passed
    /\ ret.flags # check_guardrails(call.evaluators).flags
    /\ Verdict(ret) = Verdict(check_guardrails(call.evaluators))

(***************************************************************************)
(* Health analysis (health/analysis.py): the primitives over a dict of the *)
(* four layers, and the same analysis routed through the native kernel.    *)
(***************************************************************************)
LAYER_NAMES == <<"micro", "meso", "macro", "meta">>

\* interaction_score: max(0.0, 1.0 - abs(layer_a - layer_b))
interaction_score(layer_a, layer_b) ==
    Max(0, ValueOne - (IF layer_a >= layer_b THEN layer_a - layer_b
                       ELSE layer_b - layer_a))

\* compute_m_score, which is not rounded: a fraction of millionths
compute_m_score(layers) ==
    [num |-> SumList([i \in 1..Len(LAYER_NAMES) |->
                        (WeightOne \div Len(LAYER_NAMES)) * layers[LAYER_NAMES[i]]])
                * InvSqrtThousandths(Len(LAYER_NAMES)),
     den |-> (WeightOne * ValueOne * 1000) \div Million]

\* compute_coherence
compute_coherence(layers, divisor) ==
    Coherence([i \in 1..Len(LAYER_NAMES) |-> layers[LAYER_NAMES[i]]], divisor)

\* detect_signal
detect_signal(layers, detection_threshold) ==
    LET vals == [i \in 1..Len(LAYER_NAMES) |-> layers[LAYER_NAMES[i]]]
    IN  IF MaxOf(vals) - MinOf(vals) > detection_threshold THEN "friction_detected"
        ELSE IF MinOf(vals) > detection_threshold THEN "emergence_window"
        ELSE "baseline"

\* the tail of find_tension_pairs from the layer at position i, its partner
\* at position j: for i, a in enumerate(LAYER_NAMES): for b in LAYER_NAMES[i+1:]
RECURSIVE TensionFrom(_, _, _, _)
TensionFrom(layers, tension_threshold, i, j) ==
    IF i > Len(LAYER_NAMES) THEN <<>>
    ELSE IF j > Len(LAYER_NAMES)
    THEN TensionFrom(layers, tension_threshold, i + 1, i + 2)
    ELSE LET agreement == interaction_score(layers[LAYER_NAMES[i]],
                                            layers[LAYER_NAMES[j]])
             rest == TensionFrom(layers, tension_threshold, i, j + 1)
         IN  IF agreement < tension_threshold
             THEN <<<<LAYER_NAMES[i], LAYER_NAMES[j], RoundDiv(agreement, 10)>>>>
                    \o rest
             ELSE rest

\* find_tension_pairs
find_tension_pairs(layers, tension_threshold) ==
    TensionFrom(layers, tension_threshold, 1, 2)

\* a dominant layer that is the last of the largest
dominant_layer_last(layers) ==
    LAYER_NAMES[CHOOSE i \in 1..Len(LAYER_NAMES) :
        /\ \A j \in 1..Len(LAYER_NAMES) : layers[LAYER_NAMES[j]] <= layers[LAYER_NAMES[i]]
        /\ \A j \in (i + 1)..Len(LAYER_NAMES) :
              layers[LAYER_NAMES[j]] < layers[LAYER_NAMES[i]]]

\* dominant_layer: max(LAYER_NAMES, key=...) keeps the first of the largest
dominant_layer(layers) ==
    LAYER_NAMES[CHOOSE i \in 1..Len(LAYER_NAMES) :
        /\ \A j \in 1..Len(LAYER_NAMES) : layers[LAYER_NAMES[j]] <= layers[LAYER_NAMES[i]]
        /\ \A j \in 1..(i - 1) : layers[LAYER_NAMES[j]] < layers[LAYER_NAMES[i]]]

\* analyze_scaffold on a template whose layers score_scaffold_layers gives
analyze_scaffold(layers, detection_threshold, tension_threshold, coherence_divisor) ==
    [kind |-> "ScaffoldHealthResult", layers |-> layers,
     m_score |-> compute_m_score(layers),
     coherence |-> compute_coherence(layers, coherence_divisor),
     dominant_layer |-> dominant_layer(layers),
     signal |-> detect_signal(layers, detection_threshold),
     tension_pairs |-> find_tension_pairs(layers, tension_threshold)]

\* analyze_scaffold_with_backend(backend="cip_native") on the same template
analyze_scaffold_with_backend(layers, detection_threshold, tension_threshold, coherence_divisor) ==
    LET result == detect(LAYER_NAMES,
                         [i \in 1..Len(LAYER_NAMES) |-> layers[LAYER_NAMES[i]]],
                         None, "friction", 1, detection_threshold,
                         tension_threshold, coherence_divisor)
    IN  [kind |-> "ScaffoldHealthResult", layers |-> layers,
         m_score |-> result.m_score, coherence |-> result.coherence,
         dominant_layer |-> result.dominant_layer, signal |-> result.signal,
         tension_pairs |-> result.tension_pairs]

\* 0, 0.1234, 0.5 and 1.0
HealthValuePool == {0, 1234, 5000, 10000}

\* an analysis of a template's layers is about to be made
InitHealth ==
    /\ registry = <<>>
    /\ by_tool = EmptyDict
    /\ _cache = EmptyDict
    /\ _token_to_scaffold_ids = EmptyDict
    /\ call \in {[op |-> op, layers |-> layers,
                  detection_threshold |-> detection_threshold,
                  tension_threshold |-> tension_threshold,
                  coherence_divisor |-> 5000] :
                    op \in {"analyze_scaffold", "analyze_scaffold_with_backend"},
                    layers \in [Range(LAYER_NAMES) -> HealthValuePool],
                    detection_threshold \in DetectionThresholdPool,
                    tension_threshold \in TensionThresholdPool}
    /\ ret = Nothing
    /\ obs = Nothing
    /\ self = Nothing
    /\ frames = Nothing

\* analyze_scaffold(scaffold, ...)
AnalyzeScaffold ==
    /\ call.op = "analyze_scaffold"
    /\ ret = Nothing
    /\ ret' = analyze_scaffold(call.layers, call.detection_threshold,
                               call.tension_threshold, call.coherence_divisor)
    /\ UNCHANGED <<registry, by_tool, _cache, _token_to_scaffold_ids, call, obs, self, frames>>

\* analyze_scaffold_with_backend(scaffold, backend="cip_native", ...)
AnalyzeScaffoldWithBackend ==
    /\ call.op = "analyze_scaffold_with_backend"
    /\ ret = Nothing
    /\ ret' = analyze_scaffold_with_backend(call.layers, call.detection_threshold,
                                            call.tension_threshold,
                                            call.coherence_divisor)
    /\ UNCHANGED <<registry, by_tool, _cache, _token_to_scaffold_ids, call, obs, self, frames>>

NextHealth ==
    \/ AnalyzeScaffold
    \/ AnalyzeScaffoldWithBackend

\* the two analyses over every layer vector of the pool
SpecHealth == InitHealth /\ [][NextHealth]_vars

Analyzed == call.op \in {"analyze_scaffold", "analyze_scaffold_with_backend"} /\ ret # Nothing

\* the fields the two analyses are compared on
ParityFields(r) ==
    [signal |-> r.signal, dominant_layer |-> r.dominant_layer,
     tension_pairs |-> r.tension_pairs]

\* C21: the native kernel refines the health primitives: for every vector
\* of the four layers with equal weights and the same thresholds, detect
\* returns the signal of detect_signal, the dominant layer of dominant_layer
\* (the first maximal layer on ties) and the tension pairs of
\* find_tension_pairs in the same order, so analyze_scaffold_with_backend
\* agrees with analyze_scaffold on those fields.
C21_NativeRefinesHealth ==
    Analyzed =>
        /\ ParityFields(ret)
              = ParityFields(analyze_scaffold(call.layers, call.detection_threshold,
                                call.tension_threshold, call.coherence_divisor))
        /\ ParityFields(ret)
              = ParityFields(analyze_scaffold_with_backend(call.layers,
                                call.detection_threshold, call.tension_threshold,
                                call.coherence_divisor))

\* through the kernel: two layers tie for the maximum, the first of them, not
\* the first layer, is dominant, and two or more pairs are in tension
C21_Witness ==
    /\ Analyzed
    /\ call.op = "analyze_scaffold_with_backend"
    /\ ret.signal = "friction_detected"
    /\ Len(ret.tension_pairs) >= 2
    /\ ret.dominant_layer = "meso"
    /\ call.layers["meso"] = call.layers["meta"]

(***************************************************************************)
(* Properties of the score of one template.                                *)
(***************************************************************************)
\* the number of the four layer values of a score over the activation threshold
ActiveLayers(score) ==
    Cardinality({l \in {"micro", "meso", "macro", "meta"} :
                    score.layers[l] > activation(call.params)})

\* the weighted layer sum of a score
WeightedSum(score) ==
    LET w == weights(call.params)
    IN  Get(w, "micro", 0) * score.layers.micro + Get(w, "meso", 0) * score.layers.meso
        + Get(w, "macro", 0) * score.layers.macro + Get(w, "meta", 0) * score.layers.meta

\* C22: the reinforcement multiplier depends only on the number of active
\* layers: interaction_multiplier = 1 + coefficient * max(0, active - 1) with
\* active the number of layer values strictly over the activation threshold;
\* it is exactly 1 with zero or one active layer, over 1 iff two or more are
\* active, and pre_bias_score = weighted layer sum * interaction_multiplier.
C22_ReinforcementByActiveCount ==
    Pruned =>
        \A k \in 1..Len(ret.scores) :
            LET score == ret.scores[k]
                active == ActiveLayers(score)
            IN  /\ score.interaction_multiplier
                      = Hundred + reinforce(call.params) * Max(0, active - 1)
                /\ active <= 1 => score.interaction_multiplier = Hundred
                /\ score.interaction_multiplier > Hundred <=> active >= 2
                /\ score.pre_bias_score
                      = WeightedSum(score) * score.interaction_multiplier

\* one template scored with a single active layer and one with the meta layer
\* among two or more active layers
C22_Witness ==
    /\ Pruned
    /\ Len(ret.scores) = 2
    /\ \E k \in 1..2 : /\ ActiveLayers(ret.scores[k]) = 1
                       /\ ret.scores[k].pre_bias_score > 0
    /\ \E k \in 1..2 : /\ ActiveLayers(ret.scores[k]) >= 2
                       /\ ret.scores[k].layers.meta > activation(call.params)

\* the parameters of the call with the selection bias taken away
WithoutBias == [call.params EXCEPT !.selection_bias = None]

\* the template of the call with the id
TemplateOf(scaffold_id) ==
    call.scaffolds[CHOOSE i \in 1..Len(call.scaffolds) :
                      call.scaffolds[i].id = scaffold_id]

score_scaffolds_explained(cache, index, scaffolds, user_input, selection_bias, params) ==
    LET p == EffectiveParams(params, selection_bias)
        r == _score_scaffolds_layered(cache, index, scaffolds, user_input, p)
    IN  [scores |-> r.scores, cache |-> r.cache, index |-> r.index,
         params_after |-> IF params # None THEN Some(p) ELSE None]

\* SelectionParams() with no argument
DefaultParams == SelectionParams(None, None, None, None)

ExplainInputPool == {sEmpty, sAB}
ExplainBiasPool == {None, Some([y |-> 2 * BiasOne])}
ExplainParamsPool ==
    {None, Some(SelectionParams(None, None, None, None)),
     Some(SelectionParams(None, None, None, Some([x |-> 2 * BiasOne])))}

\* score_scaffolds_explained(registry.all(), user_input, selection_bias, params)
ScoreScaffoldsExplained(user_input, selection_bias, params) ==
    \E r \in {score_scaffolds_explained(_cache, _token_to_scaffold_ids, registry,
                                        user_input, selection_bias, params)} :
        /\ _cache' = r.cache
        /\ _token_to_scaffold_ids' = r.index
        /\ call' = [op |-> "score_scaffolds_explained", scaffolds |-> registry,
                    user_input |-> user_input,
                    selection_bias |-> selection_bias, params |-> params]
        /\ ret' = [kind |-> "explained", scores |-> r.scores]
        /\ obs' = [kind |-> "explained", params_after |-> r.params_after]
        /\ UNCHANGED <<registry, by_tool, self, frames>>

NextExplained ==
    \/ NewRegistry
    \/ \E scaffold \in ScaffoldPool : Register(scaffold)
    \/ PrepareMatcherCache
    \/ ClearMatcherCache
    \/ \E user_input \in ExplainInputPool :
            ScoreScaffoldsLayered(user_input, DefaultParams)
    \/ \E user_input \in ExplainInputPool, selection_bias \in ExplainBiasPool,
          params \in ExplainParamsPool :
            ScoreScaffoldsExplained(user_input, selection_bias, params)
    \/ \E user_input \in ExplainInputPool, selection_bias \in ExplainBiasPool,
          params \in ExplainParamsPool :
            MatchScaffold("u", user_input, None, selection_bias, params)

\* the matcher under the calls of its public entry points
SpecExplained == Init /\ [][NextExplained]_vars

\* the step is a scoring call with no template or no input text
DegenerateCall ==
    /\ call'.op \in {"_score_scaffolds_layered", "score_scaffolds_explained"}
    /\ call'.scaffolds = <<>> \/ call'.user_input = <<>>

\* C24: for an empty template list or an empty input text
\* _score_scaffolds_layered returns (None, [], 0.0, False) and
\* score_scaffolds_explained returns [], nothing is raised, and neither the
\* template cache nor the inverted index is modified by the call.
C24_DegenerateInputs ==
    [][DegenerateCall =>
          /\ _cache' = _cache
          /\ _token_to_scaffold_ids' = _token_to_scaffold_ids
          /\ call'.op = "_score_scaffolds_layered" =>
                ret' = [kind |-> "scored", selected |-> None, scores |-> <<>>,
                        confidence |-> 0, ambiguous |-> FALSE]
          /\ call'.op = "score_scaffolds_explained" =>
                ret' = [kind |-> "explained", scores |-> <<>>]]_vars

\* score_scaffolds_explained has been called with an empty text on two
\* registered templates of which the cache holds one
C24_Witness ==
    /\ call.op = "score_scaffolds_explained"
    /\ call.user_input = <<>>
    /\ Len(call.scaffolds) = 2
    /\ Cardinality(DOMAIN _cache) = 1
    /\ ret.scores = <<>>

\* C30: selection does not modify its inputs: match_scaffold and
\* score_scaffolds_explained leave a caller-supplied SelectionParams object
\* (its selection_bias and context fields) as it was given, so the object can
\* be reused across calls with different selection_bias arguments.
C30_ParamsUnmodified ==
    (/\ call.op \in {"match_scaffold", "score_scaffolds_explained"}
     /\ call.params # None)
        => obs.params_after = call.params

\* the score's only hit is one keyword match
OnlyOneKeyword(score) ==
    /\ score.layers.micro = _saturate(10, sat(call.params, "micro"))
    /\ score.layers.meso = 0 /\ score.layers.macro = 0 /\ score.layers.meta = 0

\* the score's only hit is one intent phrase fully covered by the input and
\* found in it verbatim
OnlyOnePhrase(score) ==
    /\ score.layers.meso
          = _saturate(10 + signal_bonus(call.params), sat(call.params, "meso"))
    /\ score.layers.micro = 0 /\ score.layers.macro = 0 /\ score.layers.meta = 0

\* C25: under default parameters a template whose only hit is one fully
\* covered, verbatim intent phrase scores strictly more than a template whose
\* only hit is one keyword, and it is the template selected, whichever of the
\* two is listed first.
C25_IntentBeatsKeyword ==
    (Pruned /\ call.params = DefaultParams /\ Len(call.scaffolds) = 2) =>
        \A a, b \in 1..2 :
            LET score_a == ScoreOf(ret.scores, call.scaffolds[a].id)
                score_b == ScoreOf(ret.scores, call.scaffolds[b].id)
            IN  (OnlyOneKeyword(score_a) /\ OnlyOnePhrase(score_b)) =>
                    /\ score_b.total_score > score_a.total_score
                    /\ ret.selected = Some(call.scaffolds[b])

\* the keyword template is listed first, the phrase template second, and each
\* has its single hit
C25_Witness ==
    /\ Pruned /\ call.params = DefaultParams /\ Len(call.scaffolds) = 2
    /\ call.scaffolds[1].keywords # <<>> /\ call.scaffolds[2].intent_signals # <<>>
    /\ OnlyOneKeyword(ScoreOf(ret.scores, call.scaffolds[1].id))
    /\ OnlyOnePhrase(ScoreOf(ret.scores, call.scaffolds[2].id))
    /\ ret.selected = Some(call.scaffolds[2])

(***************************************************************************)
(* _saturate on its own: whole numbers of hits under several rates.        *)
(***************************************************************************)
MaxHits == 8

\* saturation rates 0.2, 0.5, 0.7 (micro), 1.0 (meso), 2.0 and 3.0, in tenths
RatePool == {2, 5, 7, 10, 20, 30}

\* a call of _saturate is about to be made
InitSaturate ==
    /\ registry = <<>>
    /\ by_tool = EmptyDict
    /\ _cache = EmptyDict
    /\ _token_to_scaffold_ids = EmptyDict
    /\ call \in {[op |-> "_saturate", raw |-> 10 * n, k |-> k] :
                    n \in (-2)..MaxHits, k \in RatePool}
    /\ ret = Nothing
    /\ obs = Nothing
    /\ self = Nothing
    /\ frames = Nothing

\* _saturate(raw, k)
Saturate ==
    /\ call.op = "_saturate"
    /\ ret = Nothing
    /\ ret' = [kind |-> "saturated", value |-> _saturate(call.raw, call.k)]
    /\ UNCHANGED <<registry, by_tool, _cache, _token_to_scaffold_ids, call, obs, self, frames>>

NextSaturate ==
    \/ Saturate

SpecSaturate == InitSaturate /\ [][NextSaturate]_vars

Saturated == call.op = "_saturate" /\ ret # Nothing

\* the value one hit earlier and the value one hit later
OneHitBefore == _saturate(call.raw - 10, call.k)
OneHitAfter == _saturate(call.raw + 10, call.k)

\* e^(-k * raw) is still told apart from 0 one hit later
Resolved == call.k * (call.raw + 10) <= 10 * (Len(ExpNegTable) - 1)

MaxHistoryTurns == 2
MaxSays == 4

\* Conversation(cip, max_history_turns=...)
Conversation(max_history_turns) ==
    [kind |-> "Conversation", _max_history_turns |-> max_history_turns,
     _history |-> <<>>, _turns |-> <<>>]

\* Turn(user_input, result, scaffold_id, turn_number), the result by its content
Turn(user_input, result, turn_number) ==
    [user_input |-> user_input, result |-> result, turn_number |-> turn_number]

\* list[-n:] for n >= 0: the last n items, and the whole list when n is 0
\* (-0 is 0) or n is not less than the length
SliceLast(list, n) ==
    IF n = 0 \/ n >= Len(list) THEN list
    ELSE SubSeq(list, Len(list) - n + 1, Len(list))

\* the object after say(user_input) when CIP.run returned the content
say(conv, user_input, content) ==
    LET appended == conv._history \o <<[role |-> "user", content |-> user_input],
                                       [role |-> "assistant", content |-> content]>>
        max_messages == conv._max_history_turns * 2
    IN  [conv EXCEPT
            !._history = IF Len(appended) > max_messages
                         THEN SliceLast(appended, max_messages) ELSE appended,
            !._turns = Append(conv._turns,
                              Turn(user_input, content, Len(conv._turns) + 1))]

\* Conversation.turn_count
turn_count(conv) == Len(conv._turns)

UserInputPool == {"hello", "more"}
ContentPool == {"answer"}

\* a conversation has been constructed
InitConversation ==
    /\ registry = <<>>
    /\ by_tool = EmptyDict
    /\ _cache = EmptyDict
    /\ _token_to_scaffold_ids = EmptyDict
    /\ call = [op |-> "Conversation"]
    /\ ret = Nothing
    /\ obs = [says |-> 0]
    /\ self \in {Conversation(m) : m \in 0..MaxHistoryTurns}
    /\ frames = Nothing

\* await conv.say(user_input) where CIP.run returns a result
Say(user_input, content) ==
    /\ obs.says < MaxSays
    /\ self' = say(self, user_input, content)
    /\ call' = [op |-> "say", user_input |-> user_input]
    /\ ret' = [kind |-> "CIPResult", content |-> content]
    /\ obs' = [says |-> obs.says + 1]
    /\ UNCHANGED <<registry, by_tool, _cache, _token_to_scaffold_ids, frames>>

\* await conv.say(user_input) where CIP.run raises: nothing is recorded
SayRaises(user_input) ==
    /\ call' = [op |-> "say", user_input |-> user_input]
    /\ ret' = [kind |-> "raise", error |-> "Exception"]
    /\ UNCHANGED <<registry, by_tool, _cache, _token_to_scaffold_ids, obs, self, frames>>

\* conv.reset()
Reset ==
    /\ self' = [self EXCEPT !._history = <<>>, !._turns = <<>>]
    /\ call' = [op |-> "reset"]
    /\ ret' = Nothing
    /\ obs' = [says |-> 0]
    /\ UNCHANGED <<registry, by_tool, _cache, _token_to_scaffold_ids, frames>>

NextConversation ==
    \/ \E user_input \in UserInputPool, content \in ContentPool :
            Say(user_input, content)
    \/ \E user_input \in UserInputPool : SayRaises(user_input)
    \/ Reset

\* one conversation under say and reset
SpecConversation == InitConversation /\ [][NextConversation]_vars

\* every message said and answered since construction or the last reset
Transcript(turns) ==
    [i \in 1..(2 * Len(turns)) |->
        IF i % 2 = 1
        THEN [role |-> "user", content |-> turns[(i + 1) \div 2].user_input]
        ELSE [role |-> "assistant", content |-> turns[i \div 2].result]]

\* C27: the conversation history is bounded: for every max_history_turns >= 0
\* and after any sequence of successful say() calls,
\* len(history) <= 2 * max_history_turns, the history is the most recent
\* messages as alternating user/assistant pairs, and turn_count is the number
\* of say() calls since construction or the last reset().
C27_HistoryBounded ==
    LET history == self._history
        kept == Len(history)
        transcript == Transcript(self._turns)
    IN  /\ kept <= 2 * self._max_history_turns
        /\ kept % 2 = 0
        /\ \A i \in 1..kept :
              history[i].role = (IF i % 2 = 1 THEN "user" ELSE "assistant")
        /\ kept <= Len(transcript)
        /\ history = SubSeq(transcript, Len(transcript) - kept + 1, Len(transcript))
        /\ turn_count(self) = obs.says

(***************************************************************************)
(* Two callers inside _ensure_cached for one template id, their steps      *)
(* interleaved: the module keeps no lock around _cache and the index.      *)
(***************************************************************************)
Threads == {1, 2}

\* the templates of the pool that share an id
SameIdPairs ==
    {pair \in ScaffoldPool \X ScaffoldPool : pair[1].id = pair[2].id}

\* the frame of a caller about to run _ensure_cached(scaffold)
Frame(scaffold) == [pc |-> "lookup", scaffold |-> scaffold, cached |-> None]

\* the cache is empty or holds an earlier version of the template, and two
\* callers are about to run _ensure_cached
InitConcurrent ==
    /\ registry = <<>>
    /\ by_tool = EmptyDict
    /\ \E prior \in {<<>>} \cup {<<s>> : s \in ScaffoldPool} :
          /\ _cache = EnsureAll(EmptyDict, EmptyDict, prior).cache
          /\ _token_to_scaffold_ids = EnsureAll(EmptyDict, EmptyDict, prior).index
    /\ call \in {[op |-> "_ensure_cached", scaffolds |-> pair] : pair \in SameIdPairs}
    /\ ret = Nothing
    /\ obs = [overlapped |-> FALSE]
    /\ self = Nothing
    /\ frames = [t \in Threads |-> Frame(call.scaffolds[t])]

\* a caller is between its lookup and its return
Inside(frame) == frame.pc \in {"evict", "store", "insert"}

\* what is known of overlap once the caller t has taken a step
Overlap(t) == [overlapped |-> obs.overlapped \/ \E u \in Threads \ {t} : Inside(frames[u])]

\* lines 190-194: cached = _cache.get(scaffold.id) and the two tests on it
Lookup(t) ==
    /\ frames[t].pc = "lookup"
    /\ LET scaffold == frames[t].scaffold
           cached == IF scaffold.id \in DOMAIN _cache
                     THEN Some(_cache[scaffold.id]) ELSE None
       IN  frames' = [frames EXCEPT ![t] =
                [@ EXCEPT !.cached = cached,
                          !.pc = IF CacheHit(_cache, scaffold) THEN "done"
                                 ELSE IF cached # None THEN "evict"
                                 ELSE "store"]]
    /\ obs' = Overlap(t)
    /\ UNCHANGED <<registry, by_tool, _cache, _token_to_scaffold_ids, call, ret, self>>

\* line 195: _evict_scaffold_tokens(scaffold.id, cached.match_tokens)
Evict(t) ==
    /\ frames[t].pc = "evict"
    /\ _token_to_scaffold_ids' =
          _evict_scaffold_tokens(_token_to_scaffold_ids, frames[t].scaffold.id,
                                 frames[t].cached[1].match_tokens)
    /\ frames' = [frames EXCEPT ![t].pc = "store"]
    /\ obs' = Overlap(t)
    /\ UNCHANGED <<registry, by_tool, _cache, call, ret, self>>

\* lines 197-216: the entry is built and _cache[scaffold.id] = entry
Store(t) ==
    /\ frames[t].pc = "store"
    /\ LET scaffold == frames[t].scaffold
       IN  _cache' = [i \in DOMAIN _cache \cup {scaffold.id} |->
                        IF i = scaffold.id THEN BuildEntry(scaffold) ELSE _cache[i]]
    /\ frames' = [frames EXCEPT ![t].pc = "insert"]
    /\ obs' = Overlap(t)
    /\ UNCHANGED <<registry, by_tool, _token_to_scaffold_ids, call, ret, self>>

\* lines 218-221: the tokens of the entry are inserted and the entry returned
Insert(t) ==
    /\ frames[t].pc = "insert"
    /\ _token_to_scaffold_ids' =
          IndexInsert(_token_to_scaffold_ids, frames[t].scaffold.id,
                      BuildEntry(frames[t].scaffold).match_tokens)
    /\ frames' = [frames EXCEPT ![t].pc = "done"]
    /\ obs' = Overlap(t)
    /\ UNCHANGED <<registry, by_tool, _cache, call, ret, self>>

NextConcurrent ==
    \/ \E t \in Threads : Lookup(t)
    \/ \E t \in Threads : Evict(t)
    \/ \E t \in Threads : Store(t)
    \/ \E t \in Threads : Insert(t)

\* two unsynchronised callers of _ensure_cached
SpecConcurrent == InitConcurrent /\ [][NextConcurrent]_vars

BothReturned == \A t \in Threads : frames[t].pc = "done"

\* the id the two callers share
SharedId == call.scaffolds[1].id

\* the index lists the shared id under a token the stored entry lacks
StaleToken ==
    \E token \in DOMAIN _token_to_scaffold_ids :
        /\ SharedId \in _token_to_scaffold_ids[token]
        /\ token \notin _cache[SharedId].match_tokens

\* the stored entry has a token under which the index does not list the id
MissingToken ==
    \E token \in _cache[SharedId].match_tokens :
        SharedId \notin Get(_token_to_scaffold_ids, token, {})

\* C29 as stated: when two callers run _ensure_cached for the same id with
\* different content and their steps interleave arbitrarily without locking,
\* the index never ends up holding a token for that id that is absent from
\* the entry finally stored in the cache.
C29_IndexExactUnderInterleaving ==
    BothReturned => ~StaleToken

\* C29 amended: when the two calls are serialised (neither caller takes a
\* step while the other is between its lookup and its return), the index
\* ends up exact for the id: it lists the id under a token iff the token is
\* in the entry finally stored.
C29_IndexExactWhenSerialised ==
    (BothReturned /\ ~obs.overlapped) => (~StaleToken /\ ~MissingToken)

\* serialised calls with different content: the later caller found the
\* earlier caller's entry, evicted its tokens and stored its own
C29_Witness ==
    /\ BothReturned /\ ~obs.overlapped
    /\ \E t \in Threads :
          /\ frames[t].cached # None
          /\ frames[t].cached[1].match_tokens # {}
          /\ frames[t].cached[1].match_tokens # _cache[SharedId].match_tokens
          /\ frames[t].cached[1]
                = BuildEntry(frames[CHOOSE u \in Threads : u # t].scaffold)
          /\ _cache[SharedId] = BuildEntry(frames[t].scaffold)

(***************************************************************************)
(* InnerLLMClient.invoke_stream (llm/client.py): the provider's chunks are *)
(* collected, the text collected so far is checked after every chunk, and  *)
(* events are yielded.  The text of a terminal event is the sanitised      *)
(* content, which is not kept here: a terminal event carries the           *)
(* guardrail flags of its response.                                        *)
(***************************************************************************)
MaxChunks == 3

\* the prohibited indicator of the configuration and the escalation trigger
\* of the template
ProhibitedIndicator == sAB
EscalationTrigger == <<"c">>

\* "".join(collected)
RECURSIVE Join(_)
Join(collected) ==
    IF collected = <<>> THEN <<>> ELSE Head(collected) \o Join(Tail(collected))

\* str.strip()
Strip(text) ==
    LET inked == {i \in 1..Len(text) : ~IsSpace(text[i])}
    IN  IF inked = {} THEN <<>>
        ELSE SubSeq(text, CHOOSE i \in inked : \A j \in inked : i <= j,
                          CHOOSE i \in inked : \A j \in inked : j <= i)

\* ProhibitedPatternEvaluator.evaluate with the one indicator
ProhibitedPatternEvaluate(content) ==
    LET content_lower == _normalize_phrase(content)
        found == /\ _tokenize(ProhibitedIndicator) \subseteq _tokenize(content_lower)
                 /\ PatternSearch(_normalize_phrase(ProhibitedIndicator), content_lower)
    IN  GuardrailEvaluation("prohibited_pattern",
                            IF found THEN <<"prohibited_pattern_detected">> ELSE <<>>,
                            IF found THEN <<"blocked">> ELSE <<>>,
                            IF found THEN <<ProhibitedIndicator>> ELSE <<>>, None)

\* EscalationTriggerEvaluator.evaluate with the one trigger, a single token
EscalationTriggerEvaluate(content) ==
    GuardrailEvaluation("escalation_trigger",
                        IF _tokenize(EscalationTrigger)
                              \subseteq _tokenize(_normalize_phrase(content))
                        THEN <<"escalation_trigger_detected">> ELSE <<>>,
                        <<>>, <<>>, None)

\* check_guardrails(content, scaffold, evaluators=evaluators)
StreamCheck(content) ==
    check_guardrails(<<[evaluation |-> EscalationTriggerEvaluate(content),
                        awaitable |-> FALSE],
                       [evaluation |-> ProhibitedPatternEvaluate(content),
                        awaitable |-> FALSE]>>)

\* a stream that halts as soon as the check raises any flag
HaltsOnAnyFlag(guardrail_check) == guardrail_check.flags # <<>>

\* "if not guardrail_check.passed"
Halts(guardrail_check) == ~guardrail_check.passed

\* StreamEvent(event="chunk", text=chunk)
ChunkEvent(chunk) == [event |-> "chunk", text |-> chunk]

\* StreamEvent(event=..., text=content, response=response) of a terminal event
TerminalEvent(event, guardrail_check) ==
    [event |-> event, response |-> [guardrail_flags |-> guardrail_check.flags]]

ChunkPool == {<<>>, sA, <<" ", "b">>, <<"c">>, <<" ">>}
ChunkSequences == UNION {[1..n -> ChunkPool] : n \in 0..MaxChunks}

\* invoke_stream has been called on a provider that will produce the chunks
InitStream ==
    /\ registry = <<>>
    /\ by_tool = EmptyDict
    /\ _cache = EmptyDict
    /\ _token_to_scaffold_ids = EmptyDict
    /\ call \in {[op |-> "invoke_stream", chunks |-> chunks] :
                    chunks \in ChunkSequences}
    /\ ret = [kind |-> "events", events |-> <<>>]
    /\ obs = [consumed |-> 0]
    /\ self = Nothing
    /\ frames = [pc |-> "loop", collected |-> <<>>]

\* the provider's next chunk, when it has one
HasNext == frames.pc = "loop" /\ obs.consumed < Len(call.chunks)
NextChunk == call.chunks[obs.consumed + 1]

\* "if not chunk: continue"
SkipEmptyChunk ==
    /\ HasNext
    /\ NextChunk = <<>>
    /\ obs' = [consumed |-> obs.consumed + 1]
    /\ UNCHANGED <<registry, by_tool, _cache, _token_to_scaffold_ids, call, ret, self, frames>>

\* the chunk is collected, the text so far passes: yield a chunk event
YieldChunk ==
    /\ HasNext
    /\ NextChunk # <<>>
    /\ \E guardrail_check \in {StreamCheck(Join(Append(frames.collected, NextChunk)))} :
          ~Halts(guardrail_check)
    /\ frames' = [frames EXCEPT !.collected = Append(@, NextChunk)]
    /\ ret' = [ret EXCEPT !.events = Append(@, ChunkEvent(NextChunk))]
    /\ obs' = [consumed |-> obs.consumed + 1]
    /\ UNCHANGED <<registry, by_tool, _cache, _token_to_scaffold_ids, call, self>>

\* the chunk is collected, the text so far fails: yield halted and return
Halt ==
    /\ HasNext
    /\ NextChunk # <<>>
    /\ \E guardrail_check \in {StreamCheck(Join(Append(frames.collected, NextChunk)))} :
          /\ Halts(guardrail_check)
          /\ ret' = [ret EXCEPT !.events =
                        Append(@, TerminalEvent("halted", guardrail_check))]
    /\ frames' = [pc |-> "returned", collected |-> Append(frames.collected, NextChunk)]
    /\ obs' = [consumed |-> obs.consumed + 1]
    /\ UNCHANGED <<registry, by_tool, _cache, _token_to_scaffold_ids, call, self>>

\* the provider is exhausted: the stripped text is checked, final is yielded
Complete ==
    /\ frames.pc = "loop"
    /\ obs.consumed = Len(call.chunks)
    /\ \E guardrail_check \in {StreamCheck(Strip(Join(frames.collected)))} :
          ret' = [ret EXCEPT !.events =
                     Append(@, TerminalEvent("final", guardrail_check))]
    /\ frames' = [frames EXCEPT !.pc = "returned"]
    /\ UNCHANGED <<registry, by_tool, _cache, _token_to_scaffold_ids, call, obs, self>>

NextStream ==
    \/ SkipEmptyChunk
    \/ YieldChunk
    \/ Halt
    \/ Complete

\* the generator can take a step exactly while it is in its loop
Resumable == frames.pc = "loop"

\* weak fairness of the generator's steps, WF_vars(NextStream), with
\* ENABLED <<NextStream>>_vars written as the state predicate it equals
ResumedWhenever == []<>(~Resumable) \/ []<><<NextStream>>_vars

\* one call of invoke_stream whose consumer iterates to the end: the event
\* loop resumes the generator whenever it can take a step
SpecStream ==
    InitStream /\ [][NextStream]_vars /\ WF_vars(SkipEmptyChunk) /\ ResumedWhenever

\* the text accumulated from the first k provider chunks fails the check
PrefixFails(k) == ~StreamCheck(Join(SubSeq(call.chunks, 1, k))).passed

\* the provider chunks at which the accumulated text fails
FailingChunks == {k \in 1..Len(call.chunks) : PrefixFails(k)}
FirstFailing == CHOOSE k \in FailingChunks : \A l \in FailingChunks : k <= l

\* the chunk events due for the first k provider chunks: the non-empty ones
ChunkEventsFor(k) ==
    LET nonempty == SelectSeq(SubSeq(call.chunks, 1, k), LAMBDA c : c # <<>>)
    IN  [i \in 1..Len(nonempty) |-> ChunkEvent(nonempty[i])]

IsTerminal(e) == e.event \in {"halted", "final"}

\* the events so far are chunk events up to at most one terminal event, which
\* is there exactly when the generator has returned
WellFormedEvents ==
    LET events == ret.events
        n == Len(events)
    IN  /\ \A i \in 1..(n - 1) : events[i].event = "chunk"
        /\ frames.pc = "returned" <=> (n >= 1 /\ IsTerminal(events[n]))
        /\ FailingChunks # {} => obs.consumed <= FirstFailing
        /\ (n >= 1 /\ events[n].event = "halted") =>
              /\ FailingChunks # {}
              /\ obs.consumed = FirstFailing
              /\ SubSeq(events, 1, n - 1) = ChunkEventsFor(FirstFailing - 1)
        /\ (n >= 1 /\ events[n].event = "final") =>
              /\ FailingChunks = {}
              /\ obs.consumed = Len(call.chunks)
              /\ SubSeq(events, 1, n - 1) = ChunkEventsFor(Len(call.chunks))
        /\ (n = 0 \/ ~IsTerminal(events[n])) => events = ChunkEventsFor(obs.consumed)

\* C28: invoke_stream emits, for every provider chunk sequence, zero or more
\* chunk events followed by exactly one terminal event after which nothing is
\* emitted; halted is emitted at the first provider chunk whose accumulated
\* text fails the guardrail check, that chunk is never emitted as a chunk
\* event and no later provider chunk is consumed; final is emitted only if
\* no accumulated prefix failed.
C28_StreamWellFormed ==
    /\ []WellFormedEvents
    /\ <>[](frames.pc = "returned")

\* a stream halted at its third chunk: an empty chunk was skipped, a chunk
\* event was emitted, and the violation spans two chunks
C28_Witness ==
    /\ call.op = "invoke_stream"
    /\ frames.pc = "returned"
    /\ Len(call.chunks) = 3
    /\ call.chunks[1] = <<>>
    /\ ret.events = <<ChunkEvent(sA), TerminalEvent("halted", StreamCheck(sAB))>>

====
